---- MODULE Spec2Model ----
(***************************************************************************)
(* Model of the leaderboard component (src/components/Leaderboard.tsx):    *)
(* the React state of Leaderboard, the fetchLeaderboard calls in flight,   *)
(* and the cross-sponsor aggregation of fetchAllSponsorsLazy.              *)
(*                                                                         *)
(* Conventions.  A JavaScript string is a sequence of one-character        *)
(* strings, so that toLowerCase, trim, includes and parseFloat are         *)
(* computed and not assumed.  Money is counted in units of 1/10000 USD     *)
(* and token amounts in whole tokens, so a price of 0.1249 is 1249.        *)
(* A value that is `null` in the source is NullId for a number and the     *)
(* empty sequence for a string (the source reads both through `|| ''`).    *)
(***************************************************************************)
EXTENDS Integers, Sequences, FiniteSets, TLC

\* ------------------------------------------------------------------ bounds

\* fetchLeaderboard calls that may be started after the one made on mount
MaxRounds == 2
\* the first NumFlaky sponsors' requests may be rejected one by one (a total
\* outage, every request rejected, is always possible)
NumFlaky == 1
\* builders on the first walletconnect page (more than one display chunk)
NumBuilders == 31
\* the largest collection handed to the pagination (two full pages and one more)
MaxCollection == 61
\* the pages asked of a paginated collection (one past the last)
MaxPage == 4
\* the largest live price the price service quotes, in 1/10000 USD
MaxUsd == 2
\* the longest list of builders handed to the category selectors
MaxListed == 3
\* performSearch calls that SearchResults may start, the one on mount included
MaxSearches == 3

\* --------------------------------------------------------------- constants

ALL_SPONSOR_SLUGS ==
  <<"walletconnect", "celo", "base", "base-summer", "syndicate", "talent-protocol">>

Sponsors == {ALL_SPONSOR_SLUGS[i] : i \in 1..Len(ALL_SPONSOR_SLUGS)}

\* the display chunk of the all-sponsors table
DISPLAY_CHUNK == 30

NullId == 0 - 1

NULL_TOKEN_INFO == [symbol |-> "", name |-> "", fallbackPrice |-> 0]

SPONSOR_TOKENS(slug) ==
  CASE slug = "walletconnect"   -> [symbol |-> "WCT", name |-> "WalletConnect Token", fallbackPrice |-> 1249]
    [] slug = "celo"            -> [symbol |-> "CELO", name |-> "Celo", fallbackPrice |-> 5000]
    [] slug = "base"            -> [symbol |-> "ETH", name |-> "Ethereum", fallbackPrice |-> 30000000]
    [] slug = "base-summer"     -> [symbol |-> "ETH", name |-> "Ethereum", fallbackPrice |-> 30000000]
    [] slug = "talent-protocol" -> [symbol |-> "TALENT", name |-> "Talent Protocol", fallbackPrice |-> 1000]
    [] slug = "syndicate"       -> [symbol |-> "SYND", name |-> "Syndicate", fallbackPrice |-> 2400]
    [] OTHER                    -> NULL_TOKEN_INFO

\* ----------------------------------------------------------------- strings

Min(a, b) == IF a < b THEN a ELSE b

Max(a, b) == IF a > b THEN a ELSE b

toLowerCaseChar(c) ==
  CASE c = "A" -> "a"
    [] c = "B" -> "b"
    [] c = "C" -> "c"
    [] OTHER -> c

toLowerCase(s) == [i \in 1..Len(s) |-> toLowerCaseChar(s[i])]

RECURSIVE trimStart(_)
trimStart(s) == IF s # <<>> /\ Head(s) = " " THEN trimStart(Tail(s)) ELSE s

RECURSIVE trimEnd(_)
trimEnd(s) ==
  IF s # <<>> /\ s[Len(s)] = " " THEN trimEnd(SubSeq(s, 1, Len(s) - 1)) ELSE s

trim(s) == trimEnd(trimStart(s))

\* String.prototype.includes
includes(s, needle) ==
  \E i \in 0..(Len(s) - Len(needle)) : SubSeq(s, i + 1, i + Len(needle)) = needle

digitValue(c) ==
  CASE c = "0" -> 0 [] c = "1" -> 1 [] c = "2" -> 2 [] c = "3" -> 3 [] c = "4" -> 4
    [] c = "5" -> 5 [] c = "6" -> 6 [] c = "7" -> 7 [] c = "8" -> 8 [] c = "9" -> 9

RECURSIVE parseDigits(_, _)
parseDigits(s, acc) ==
  IF s = <<>> THEN acc ELSE parseDigits(Tail(s), acc * 10 + digitValue(Head(s)))

\* parseFloat on the numeric strings the API sends for reward_amount
parseFloat(s) == parseDigits(s, 0)

\* a || b on strings
orElse(a, b) == IF a # <<>> THEN a ELSE b

\* the quotient rounded down
floorDiv(n, d) == n \div d

\* Math.ceil(n / d) for n >= 0, d > 0
ceilDiv(n, d) == (n + d - 1) \div d

\* ------------------------------------------- the scoring service's answers

\* one record of a leaderboard page (LeaderboardUser, with the fields the
\* aggregation reads); reward_amount is a number or a numeric string
LeaderboardUser(id, tid, display_name, name, bio, wallet, amount, points, position) ==
  [id |-> id,
   leaderboard_position |-> position,
   recipient_wallet |-> wallet,
   reward_amount |-> amount,
   profile |-> [talent_protocol_id |-> tid, display_name |-> display_name,
                name |-> name, bio |-> bio, builder_score |-> [points |-> points]]]

numberAmount(n) == [t |-> "number", n |-> n, s |-> <<>>]

stringAmount(s) == [t |-> "string", n |-> 0, s |-> s]

decimalDigit(d) ==
  CASE d = 0 -> "0" [] d = 1 -> "1" [] d = 2 -> "2" [] d = 3 -> "3" [] d = 4 -> "4"
    [] d = 5 -> "5" [] d = 6 -> "6" [] d = 7 -> "7" [] d = 8 -> "8" [] d = 9 -> "9"

\* the i-th builder of the first walletconnect page: every builder has a
\* talent-protocol id; rewards alternate between numbers and numeric strings
RankedBuilder(i) ==
  LeaderboardUser(i, i,
    IF i % 3 = 0 THEN <<"A", "b">> ELSE IF i % 3 = 1 THEN <<"c">> ELSE <<"b", "c">>,
    <<"c">>,
    IF i % 3 # 0 /\ i % 16 # 1 THEN <<"a", "B", "c">> ELSE <<>>,
    IF i % 7 = 0 THEN <<"0", "x", "A", "B">> ELSE <<>>,
    IF i % 2 = 0 THEN stringAmount(<<"1", decimalDigit((i * 7) % 10)>>)
                 ELSE numberAmount((i * 7) % 10),
    (i * 5) % 4, i)

\* The pages each sponsor serves.  A sponsor lists a builder identity at
\* most once over all its pages; the same identity occurs under several
\* sponsors.
PagesOf(slug) ==
  CASE slug = "walletconnect" ->
         << [i \in 1..NumBuilders |-> RankedBuilder(i)],
            << LeaderboardUser(101, NullId, <<" ", "A", "b">>, <<>>, <<>>, <<>>,
                               stringAmount(<<"2", "0">>), 3, 101),
               LeaderboardUser(102, 0, <<>>, <<"C", "a">>, <<"b">>, <<>>,
                               numberAmount(0), 1, 102) >> >>
    [] slug = "celo" ->
         << << LeaderboardUser(5, 1, <<"c">>, <<"c">>, <<>>, <<>>, stringAmount(<<"4">>), 9, 1),
               LeaderboardUser(6, 40, <<"B">>, <<>>, <<>>, <<"0", "x", "a", "b">>,
                               numberAmount(6), 2, 2),
               LeaderboardUser(7, NullId, <<"a", "b">>, <<>>, <<>>, <<>>, numberAmount(3), 5, 3),
               LeaderboardUser(9, NullId, <<>>, <<" ">>, <<>>, <<>>, numberAmount(1), 0, 4) >> >>
    [] slug = "base" ->
         << << LeaderboardUser(3, 1, <<"c">>, <<"c">>, <<>>, <<>>, numberAmount(2), 1, 2),
               LeaderboardUser(4, 0, <<"B">>, <<>>, <<>>, <<>>, numberAmount(1), 7, 1) >>,
            << LeaderboardUser(8, 40, <<"B">>, <<>>, <<>>, <<>>, stringAmount(<<"0", "3">>), 4, 101) >> >>
    [] slug = "talent-protocol" ->
         << << LeaderboardUser(2, 2, <<"b", "c">>, <<"c">>, <<>>, <<>>, numberAmount(50), 2, 1) >> >>
    [] OTHER -> << <<>> >>

\* GET /leaderboards?sponsor_slug=slug&per_page=100&page=page, when it is
\* answered: pages past the last one are empty
UpstreamPages == [slug \in Sponsors |-> PagesOf(slug)]

UpstreamResponse(slug, page) ==
  LET pages == UpstreamPages[slug] IN
  [users |-> IF page \in 1..Len(pages) THEN pages[page] ELSE <<>>,
   pagination |-> [current_page |-> page, last_page |-> Len(pages),
                   total |-> Len(pages[1])]]

\* the price service's possible answers to a price call: fetched = fetch
\* resolved (no network error), ok = the response is 2xx, usd = the price
\* in the body (NullId: the body has none)
PriceOutcomes == [fetched : BOOLEAN, ok : BOOLEAN, usd : {NullId} \cup (0..MaxUsd)]

\* the two a round tells apart: no usable price, or a live price
RoundPriceOutcomes ==
  { [fetched |-> FALSE, ok |-> FALSE, usd |-> 0],
    [fetched |-> TRUE, ok |-> TRUE, usd |-> 2000] }

\* ------------------------------------------------------ coingecko-api.ts

\* lines 53-70 and 84-101, the body of the try block: one request is made;
\* a network error, a response that is not ok and a falsy price throw
requestPrice(outcome) ==
  [threw |-> ~outcome.fetched \/ ~outcome.ok \/ outcome.usd \in {0, NullId},
   price |-> outcome.usd]

\* the helper without its catch clause: what is thrown rejects the promise
getTokenPriceByIdUncaught(outcome, fallbackPrice) ==
  [rejected |-> requestPrice(outcome).threw, price |-> requestPrice(outcome).price,
   requests |-> 1]

\* lines 51-75: the promise the helper returns; catch returns the fallback
getTokenPriceById(outcome, fallbackPrice) ==
  [rejected |-> FALSE,
   price |-> IF requestPrice(outcome).threw THEN fallbackPrice
             ELSE requestPrice(outcome).price,
   requests |-> 1]

\* lines 78-106
getTokenPriceByContract(outcome, fallbackPrice) ==
  [rejected |-> FALSE,
   price |-> IF requestPrice(outcome).threw THEN fallbackPrice
             ELSE requestPrice(outcome).price,
   requests |-> 1]

\* a price resolution that asks the price service whatever the slug is
getTokenPriceAlwaysAsking(sponsorSlug, outcome) ==
  LET asked == getTokenPriceById(outcome, SPONSOR_TOKENS(sponsorSlug).fallbackPrice)
  IN [rejected |-> asked.rejected, price |-> asked.price,
      tokenInfo |-> SPONSOR_TOKENS(sponsorSlug), requests |-> asked.requests]

\* lines 109-156: the promise getTokenPrice returns (rejected, or resolved
\* to price and tokenInfo) and the requests made on the way; "" stands for
\* an undefined and for an empty slug
getTokenPrice(sponsorSlug, outcome) ==
  LET tokenInfo == SPONSOR_TOKENS(sponsorSlug)
      helper ==
        CASE sponsorSlug = "walletconnect" ->
               getTokenPriceByContract(outcome, tokenInfo.fallbackPrice)
          [] sponsorSlug \in {"celo", "base", "base-summer", "syndicate"} ->
               getTokenPriceById(outcome, tokenInfo.fallbackPrice)
          [] OTHER -> [rejected |-> FALSE, price |-> tokenInfo.fallbackPrice,
                       requests |-> 0]
  IN IF sponsorSlug = "" \/ tokenInfo = NULL_TOKEN_INFO
     THEN [rejected |-> FALSE, price |-> 0, tokenInfo |-> NULL_TOKEN_INFO, requests |-> 0]
     ELSE [rejected |-> helper.rejected, price |-> helper.price,
           tokenInfo |-> tokenInfo, requests |-> helper.requests]

\* ------------------------------------------ Leaderboard.tsx: aggregation

truthyId(n) == n # NullId /\ n # 0

\* a key made of the per-sponsor id whatever the record holds
getBuilderKeyById(user) == [kind |-> "id_", num |-> user.id, str |-> <<>>]

\* the builder identity key; kind stands for the prefix of the key string
getBuilderKey(user) ==
  IF truthyId(user.profile.talent_protocol_id)
  THEN [kind |-> "talent_", num |-> user.profile.talent_protocol_id, str |-> <<>>]
  ELSE LET normalizedName ==
             trim(toLowerCase(orElse(user.profile.display_name, user.profile.name)))
       IN IF normalizedName # <<>>
          THEN [kind |-> "name_", num |-> 0, str |-> normalizedName]
          ELSE [kind |-> "id_", num |-> user.id, str |-> <<>>]

\* A JavaScript Map in insertion order: a sequence of entries with distinct
\* keys.  One entry stands for the three parallel maps of the source
\* (existingUserMap, existingEarningsBreakdownMap, existingSponsorsMap).
\* a Map whose has() never finds a key
mapIndexNever(m, key) == 0

mapIndex(m, key) ==
  LET hits == {i \in 1..Len(m) : m[i].key = key} IN
  IF hits = {} THEN 0 ELSE CHOOSE i \in hits : TRUE

mapSet(m, entry) ==
  LET i == mapIndex(m, entry.key) IN
  IF i = 0 THEN Append(m, entry) ELSE [m EXCEPT ![i] = entry]

\* Set.prototype.add on a Set kept in insertion order
setAdd(set, x) ==
  IF \E i \in 1..Len(set) : set[i] = x THEN set ELSE Append(set, x)

\* The forEach loops below run over users[lo..hi] in index order; the
\* range is split in two halves, done one after the other (the test on
\* Len makes the first half's value available before the second starts),
\* which keeps the evaluation shallow without changing the order.

\* lines 352-357: one aggregated user enters the three maps
initializeUser(m, user) ==
  mapSet(m, [key |-> getBuilderKey(user), user |-> user,
             breakdown |-> user.earningsBreakdown, sponsors |-> user.sponsors])

\* lines 350-358: initialize the maps from the aggregated users
RECURSIVE initializeRange(_, _, _, _)
initializeRange(m, users, lo, hi) ==
  IF lo > hi THEN m
  ELSE IF lo = hi THEN initializeUser(m, users[lo])
  ELSE LET mid == (lo + hi) \div 2
           left == initializeRange(m, users, lo, mid)
       IN IF Len(left) >= 0 THEN initializeRange(left, users, mid + 1, hi) ELSE left

initializeFromExisting(m, users) == initializeRange(m, users, 1, Len(users))

rewardAmountOf(user) ==
  IF user.reward_amount.t = "string"
  THEN parseFloat(user.reward_amount.s)
  ELSE user.reward_amount.n

\* lines 375-384: the entry of a builder the maps do not hold yet
newEntry(builderKey, user) ==
  [key |-> builderKey,
   user |-> [earningsBreakdown |-> <<>>, totalEarningsUSD |-> 0, sponsors |-> <<>>] @@ user,
   breakdown |-> <<>>, sponsors |-> <<>>]

\* the total replaced by the latest sponsor's earnings instead of added to
addEarningsOverwriting(existingUser, earningsUSD, tokenInfo) ==
  [existingUser EXCEPT !.totalEarningsUSD = earningsUSD]

\* lines 400-401
addEarnings(existingUser, earningsUSD, tokenInfo) ==
  IF tokenInfo # NULL_TOKEN_INFO
  THEN [existingUser EXCEPT !.totalEarningsUSD = @ + earningsUSD]
  ELSE existingUser

\* lines 404-406
keepHigherScore(existingUser, user) ==
  IF user.profile.builder_score.points > existingUser.profile.builder_score.points
  THEN [existingUser EXCEPT !.profile.builder_score = user.profile.builder_score]
  ELSE existingUser

\* lines 407-409
keepLowerPosition(existingUser, user) ==
  IF user.leaderboard_position < existingUser.leaderboard_position
  THEN [existingUser EXCEPT !.leaderboard_position = user.leaderboard_position]
  ELSE existingUser

\* lines 393-398
pushBreakdown(breakdown, sponsor, rewardAmount, earningsUSD, tokenInfo) ==
  IF tokenInfo # NULL_TOKEN_INFO
  THEN Append(breakdown, [sponsor |-> sponsor, amount |-> rewardAmount,
                          amountUSD |-> earningsUSD, tokenSymbol |-> tokenInfo.symbol])
  ELSE breakdown

\* lines 386-409 on the entry of the builder
mergeEntry(entry, user, sponsor, rewardAmount, earningsUSD, tokenInfo) ==
  [key |-> entry.key,
   user |-> keepLowerPosition(
              keepHigherScore(addEarnings(entry.user, earningsUSD, tokenInfo), user), user),
   breakdown |-> pushBreakdown(entry.breakdown, sponsor, rewardAmount, earningsUSD, tokenInfo),
   sponsors |-> setAdd(entry.sponsors, sponsor)]

\* lines 375-409: found = 0 stands for !existingUserMap.has(builderKey)
mergeAt(m, found, builderKey, user, sponsor, rewardAmount, earningsUSD, tokenInfo) ==
  IF found = 0
  THEN Append(m, mergeEntry(newEntry(builderKey, user), user, sponsor,
                            rewardAmount, earningsUSD, tokenInfo))
  ELSE [m EXCEPT ![found] = mergeEntry(@, user, sponsor, rewardAmount, earningsUSD, tokenInfo)]

\* lines 367-410: one record of a fulfilled response
mergeUser(m, user, sponsor, tokenPrice, tokenInfo) ==
  mergeAt(m, mapIndex(m, getBuilderKey(user)), getBuilderKey(user), user, sponsor,
          rewardAmountOf(user), rewardAmountOf(user) * tokenPrice, tokenInfo)

RECURSIVE mergeRange(_, _, _, _, _, _, _)
mergeRange(m, users, lo, hi, sponsor, tokenPrice, tokenInfo) ==
  IF lo > hi THEN m
  ELSE IF lo = hi THEN mergeUser(m, users[lo], sponsor, tokenPrice, tokenInfo)
  ELSE LET mid == (lo + hi) \div 2
           left == mergeRange(m, users, lo, mid, sponsor, tokenPrice, tokenInfo)
       IN IF Len(left) >= 0
          THEN mergeRange(left, users, mid + 1, hi, sponsor, tokenPrice, tokenInfo)
          ELSE left

\* lines 367-410: result.value.users.forEach
mergeUsers(m, users, sponsor, tokenPrice, tokenInfo) ==
  mergeRange(m, users, 1, Len(users), sponsor, tokenPrice, tokenInfo)

\* lines 362-411: one settled response
mergeResponse(m, result, sponsor, price) ==
  IF result.status = "fulfilled"
  THEN mergeUsers(m, result.value.users, sponsor, price.price, price.tokenInfo)
  ELSE m

\* lines 360-412: allResponses[index] is a fulfilled response or rejected
RECURSIVE processResponses(_, _, _, _)
processResponses(m, allResponses, prices, index) ==
  IF index > Len(ALL_SPONSOR_SLUGS) THEN m
  ELSE LET merged == mergeResponse(m, allResponses[index], ALL_SPONSOR_SLUGS[index],
                                   prices[ALL_SPONSOR_SLUGS[index]])
       IN IF Len(merged) >= 0
          THEN processResponses(merged, allResponses, prices, index + 1)
          ELSE merged

\* the attachment of breakdown and sponsors alone: reward_amount stays what
\* the first sponsor reported
finalizeUsersKeepingReward(m) ==
  [i \in 1..Len(m) |->
     [m[i].user EXCEPT !.earningsBreakdown = m[i].breakdown,
                       !.sponsors = m[i].sponsors]]

\* lines 414-423: reward_amount becomes the total, breakdown and sponsors
\* are attached
finalizeUsers(m) ==
  [i \in 1..Len(m) |->
     [m[i].user EXCEPT !.reward_amount = numberAmount(m[i].user.totalEarningsUSD),
                       !.earningsBreakdown = m[i].breakdown,
                       !.sponsors = m[i].sponsors]]

\* the comparator with its operands exchanged
compareByTotalAscending(a, b) == a.totalEarningsUSD - b.totalEarningsUSD

\* the comparator of lines 426-430: a negative value puts a before b
compareByTotal(a, b) == b.totalEarningsUSD - a.totalEarningsUSD

\* Array.prototype.sort is stable: an element comes behind the elements
\* the comparator puts before it and behind the earlier elements the
\* comparator ties with it.  (The test on `place` tabulates it once.)
sortByTotal(users) ==
  LET n == Len(users)
      place == [i \in 1..n |->
                  Cardinality({j \in 1..n :
                     LET order == compareByTotal(users[j], users[i])
                     IN order < 0 \/ (order = 0 /\ j <= i)})]
  IN IF place = <<>> THEN <<>>
     ELSE [k \in 1..n |-> users[CHOOSE i \in 1..n : place[i] = k]]

\* the search predicate without the toLowerCase calls
matchesSearchCaseSensitive(user, search) ==
  \/ includes(orElse(user.profile.display_name, user.profile.name), search)
  \/ includes(user.profile.bio, search)
  \/ includes(user.recipient_wallet, search)

\* lines 439-444 and 1515-1520: the search predicate
matchesSearch(user, search) ==
  LET searchLower == toLowerCase(search)
      name == toLowerCase(orElse(user.profile.display_name, user.profile.name))
      bio == toLowerCase(user.profile.bio)
      wallet == toLowerCase(user.recipient_wallet)
  IN includes(name, searchLower) \/ includes(bio, searchLower) \/ includes(wallet, searchLower)

\* the indices Array.prototype.filter keeps
keptBy(users, search) ==
  {i \in 1..Len(users) : search = <<>> \/ matchesSearch(users[i], search)}

\* the filtered list, in the order of the whole list: the whole list when
\* no search is active
applySearch(users, search) ==
  IF search = <<>> THEN users
  ELSE LET kept == keptBy(users, search)
           rank == [i \in kept |-> Cardinality({j \in kept : j <= i})]
       IN IF kept = {} \/ rank = <<>> THEN <<>>
          ELSE [k \in 1..Cardinality(kept) |-> users[CHOOSE i \in kept : rank[i] = k]]

\* the displayed users left with the positions they came with
rankDisplayedAsReported(users, search, count) == users

\* lines 453-455 and 1528-1531: the first `count` users of the filtered
\* list get their display rank; they are the objects of the whole list
rankDisplayed(users, search, count) ==
  IF search = <<>>
  THEN [i \in 1..Len(users) |->
          IF i <= count THEN [users[i] EXCEPT !.leaderboard_position = i] ELSE users[i]]
  ELSE LET kept == keptBy(users, search)
           rank == [i \in kept |-> Cardinality({j \in kept : j <= i})]
       IN IF kept = {} \/ rank = <<>> THEN users
          ELSE [i \in 1..Len(users) |->
                  IF i \in kept /\ rank[i] <= count
                  THEN [users[i] EXCEPT !.leaderboard_position = rank[i]]
                  ELSE users[i]]

paginationOf(filteredUsers) ==
  [current_page |-> 1,
   last_page |-> ceilDiv(Len(filteredUsers), DISPLAY_CHUNK),
   total |-> Len(filteredUsers)]

\* lines 283-288: the page requested from a sponsor; pageMap[slug] = 0
\* stands for a slug that is not in the Map
pageToFetch(pageMap, slug) == pageMap[slug] + 1

\* lines 292-305: the requests a round issues, one for every slug of
\* ALL_SPONSOR_SLUGS whatever its cursor
requestsOf(pageMap) ==
  {[sponsor_slug |-> ALL_SPONSOR_SLUGS[index],
    per_page |-> 100,
    page |-> pageToFetch(pageMap, ALL_SPONSOR_SLUGS[index])] :
     index \in 1..Len(ALL_SPONSOR_SLUGS)}

\* Promise.all in the place of Promise.allSettled: one rejected request
\* and the round has no response at all
settleAllOrNothing(pageMap, rejected) ==
  [index \in 1..Len(ALL_SPONSOR_SLUGS) |->
     LET slug == ALL_SPONSOR_SLUGS[index] IN
     IF rejected # {}
     THEN [status |-> "rejected", value |-> UpstreamResponse(slug, 0)]
     ELSE [status |-> "fulfilled",
           value |-> UpstreamResponse(slug, pageToFetch(pageMap, slug))]]

\* lines 292-305: Promise.allSettled over the sponsors; the requests of the
\* sponsors in `rejected` are rejected, the others answered
settleAll(pageMap, rejected) ==
  [index \in 1..Len(ALL_SPONSOR_SLUGS) |->
     LET slug == ALL_SPONSOR_SLUGS[index] IN
     IF slug \in rejected
     THEN [status |-> "rejected", value |-> UpstreamResponse(slug, 0)]
     ELSE [status |-> "fulfilled",
           value |-> UpstreamResponse(slug, pageToFetch(pageMap, slug))]]

responseOf(allResponses, slug) ==
  allResponses[CHOOSE i \in 1..Len(ALL_SPONSOR_SLUGS) : ALL_SPONSOR_SLUGS[i] = slug]

\* the cursors left where they were
updatePageMapNever(pageMap, allResponses) == pageMap

\* every cursor advanced, whatever became of the request
updatePageMapAlways(pageMap, allResponses) ==
  [slug \in Sponsors |-> pageToFetch(pageMap, slug)]

\* lines 307-323: the page cursors after the round
updatePageMap(pageMap, allResponses) ==
  [slug \in Sponsors |->
     IF responseOf(allResponses, slug).status = "fulfilled"
     THEN pageToFetch(pageMap, slug)
     ELSE pageMap[slug]]

\* the flag computed over every sponsor, whatever became of its request
hasMoreDataOfAnySponsor(pageMap, allResponses) ==
  \E slug \in Sponsors :
     pageToFetch(pageMap, slug) < responseOf(allResponses, slug).value.pagination.last_page

\* lines 309-318: hasMoreData
hasMoreDataOf(pageMap, allResponses) ==
  \E slug \in Sponsors :
     /\ responseOf(allResponses, slug).status = "fulfilled"
     /\ pageToFetch(pageMap, slug) < responseOf(allResponses, slug).value.pagination.last_page

\* line 449
nextDisplayedCount(isLoadMore, displayedCountSeen, filteredLength) ==
  IF isLoadMore THEN displayedCountSeen + DISPLAY_CHUNK
  ELSE Min(DISPLAY_CHUNK, filteredLength)

\* a round that never starts from the stored collection
existingMapsEmpty(call) == <<>>

\* lines 350-358: the maps the round starts from
existingMaps(call) ==
  IF call.isLoadMore /\ Len(call.allSponsorsAggregatedUsers) > 0
  THEN initializeFromExisting(<<>>, call.allSponsorsAggregatedUsers)
  ELSE <<>>

\* lines 255-281: the prices of the round
roundPrices(priceOutcome) == [slug \in Sponsors |-> getTokenPrice(slug, priceOutcome)]

\* lines 340-430
aggregate(call, allResponses, prices) ==
  sortByTotal(finalizeUsers(processResponses(existingMaps(call), allResponses, prices, 1)))

\* lines 451-464: the returned result
resultOf(filteredCombinedUsers, currentDisplayedCount) ==
  [users |-> SubSeq(filteredCombinedUsers, 1,
                    Min(currentDisplayedCount, Len(filteredCombinedUsers))),
   pagination |-> paginationOf(filteredCombinedUsers)]

\* lines 450-464, once currentDisplayedCount is known; `ranked` is
\* combinedUsers after the loop of lines 453-455
display(newPageMap, hasMoreData, ranked, search, currentDisplayedCount) ==
  [newPageMap |-> newPageMap,
   hasMoreData |-> hasMoreData,
   combinedUsers |-> ranked,
   currentDisplayedCount |-> currentDisplayedCount,
   result |-> resultOf(applySearch(ranked, search), currentDisplayedCount)]

\* lines 433-464
rankAndDisplay(call, newPageMap, hasMoreData, combinedUsers, currentDisplayedCount) ==
  display(newPageMap, hasMoreData,
          rankDisplayed(combinedUsers, call.filters.search, currentDisplayedCount),
          call.filters.search, currentDisplayedCount)

\* lines 307-464, once the aggregation is done
finishRound(call, allResponses, combinedUsers) ==
  rankAndDisplay(call,
    updatePageMap(call.allSponsorsPageMap, allResponses),
    hasMoreDataOf(call.allSponsorsPageMap, allResponses),
    combinedUsers,
    nextDisplayedCount(call.isLoadMore, call.displayedCount,
                       Len(applySearch(combinedUsers, call.filters.search))))

\* lines 283-464, once the requests have settled
settled(call, allResponses, prices) ==
  finishRound(call, allResponses, aggregate(call, allResponses, prices))

\* lines 252-468.  `call` holds the arguments and the state the closure
\* sees; the result holds what the function hands to the state setters
\* and what it returns.
fetchAllSponsorsLazy(call, rejected, priceOutcome) ==
  settled(call, settleAll(call.allSponsorsPageMap, rejected), roundPrices(priceOutcome))

\* ------------------------------------------------ Leaderboard.tsx: state

VARIABLES
  filters,                     \* the filters prop
  page,
  activeSearchQuery,
  data,                        \* NoData stands for null
  loading,
  loadingMore,
  error,                       \* TRUE: an error message is set
  allSponsorsPageMap,
  allSponsorsAggregatedUsers,
  allSponsorsHasMore,
  displayedCount,
  inflight,                    \* the fetchLeaderboard calls awaiting their responses
  observer,                    \* the IntersectionObserver of lines 190-218 and its closure
  rounds,                      \* fetchLeaderboard calls started since mount
  lastRound,                   \* history: the all-sponsors round that completed last
                               \* (chain: it and the rounds before it were the round
                               \* made on mount and load-more rounds, each started
                               \* after the one before and with every request fulfilled),
                               \* its call, the sponsors that rejected, what it handed over
  args,                        \* a call of a library function: the function, its
                               \* arguments and what its requests are answered
  returned,                    \* what that call returned
  tokenPriceState,             \* the state tokenPrice; NullId stands for null
  tokenInfoState,              \* the state tokenInfo; NULL_TOKEN_INFO stands for null
  priceCalls,                  \* the getTokenPrice promises of the effect of lines
                               \* 132-164 that have not settled: the slug of each
  searchResults,               \* SearchResults.tsx: the filters prop and the state
  searchInflight,              \* the performSearch calls awaiting searchBuilders
  searchHistory                \* history: the calls started, whether the filters
                               \* prop has changed since mount, and the results
                               \* searchBuilders answered for each page

vars ==
  <<filters, page, activeSearchQuery, data, loading, loadingMore, error,
    allSponsorsPageMap, allSponsorsAggregatedUsers, allSponsorsHasMore,
    displayedCount, inflight, observer, rounds, lastRound, args, returned,
    tokenPriceState, tokenInfoState, priceCalls,
    searchResults, searchInflight, searchHistory>>

priceVars == <<tokenPriceState, tokenInfoState, priceCalls>>

searchVars == <<searchResults, searchInflight, searchHistory>>

leaderboardVars ==
  <<filters, page, activeSearchQuery, data, loading, loadingMore, error,
    allSponsorsPageMap, allSponsorsAggregatedUsers, allSponsorsHasMore,
    displayedCount, inflight, observer, rounds, lastRound>>

\* ------------------------------------------- SearchResults.tsx: state

\* the filters the search page passes; NullId stands for undefined
SearchFilterSets == {[minScore |-> NullId], [minScore |-> 50]}

\* what searchBuilders answers: a page of results (their addresses), the
\* total and whether more pages exist
SearchResponses ==
  [results : {<<>>, <<"0xa">>, <<"0xb", "0xc">>}, hasMore : BOOLEAN, total : {0, 3}]

\* lines 14-19: the state useState gives the first render
SearchResultsState(searchFilters) ==
  [filters |-> searchFilters, results |-> <<>>, loading |-> FALSE, error |-> FALSE,
   page |-> 1, hasMore |-> FALSE, total |-> 0]

\* a call of performSearch: its arguments, what started it and the state
\* of the render whose closure started it
SearchCall(searchFilters, pageNum, by, seen) ==
  [searchFilters |-> searchFilters, pageNum |-> pageNum, by |-> by,
   seen |-> [loading |-> seen.loading, hasMore |-> seen.hasMore, page |-> seen.page]]

NoSearchHistory ==
  [started |-> 0, changed |-> FALSE,
   responses |-> [p \in 1..MaxSearches |-> [received |-> FALSE, results |-> <<>>]]]

\* the component is not rendered
NoSearchResults ==
  /\ searchResults = SearchResultsState([minScore |-> NullId])
  /\ searchInflight = <<>>
  /\ searchHistory = NoSearchHistory

\* no library call is followed
NoCall == [fn |-> "none"]

NotReturned == [status |-> "pending"]

NoData ==
  [users |-> <<>>, pagination |-> [current_page |-> 0, last_page |-> 0, total |-> 0],
   from |-> "null"]

\* the filters LeaderboardPage starts with (no default sponsor configured)
\* and the ones LeaderboardFilters applies; "" and NullId stand for undefined
InitialFilters == [sponsor_slug |-> "", grant_id |-> NullId, per_page |-> 20, page |-> 1]

AppliedFilters ==
  { [sponsor_slug |-> "", grant_id |-> NullId, per_page |-> NullId, page |-> 1],
    [sponsor_slug |-> "walletconnect", grant_id |-> NullId, per_page |-> NullId, page |-> 1],
    [sponsor_slug |-> "walletconnect", grant_id |-> 710, per_page |-> NullId, page |-> 1] }

\* the search strings a user enters
SearchQueries == { <<"a", "B">> }

\* the dependency of the effects of lines 166-187
filterKey(f) == <<f.sponsor_slug, f.grant_id, f.per_page>>

EmptyPageMap == [slug \in Sponsors |-> 0]

\* the sets of sponsors whose requests a round may find rejected
RejectedSets ==
  (SUBSET {ALL_SPONSOR_SLUGS[i] : i \in 1..Min(NumFlaky, Len(ALL_SPONSOR_SLUGS))})
    \cup {Sponsors}

\* a call of fetchLeaderboard: its arguments and the state of the render
\* whose closure it runs in
Call(leaderboardFilters, search, isLoadMore, pageMapSeen, usersSeen, countSeen) ==
  [filters |-> [sponsor_slug |-> leaderboardFilters.sponsor_slug,
                grant_id |-> leaderboardFilters.grant_id,
                per_page |-> leaderboardFilters.per_page,
                page |-> leaderboardFilters.page,
                search |-> search],
   isLoadMore |-> isLoadMore,
   allSponsorsPageMap |-> pageMapSeen,
   allSponsorsAggregatedUsers |-> usersSeen,
   displayedCount |-> countSeen]

NoRound ==
  [n |-> 0,
   call |-> Call(InitialFilters, <<>>, FALSE, EmptyPageMap, <<>>, DISPLAY_CHUNK),
   rejected |-> {},
   chain |-> TRUE,
   r |-> [newPageMap |-> EmptyPageMap, hasMoreData |-> FALSE, combinedUsers |-> <<>>,
          currentDisplayedCount |-> 0,
          result |-> [users |-> <<>>,
                      pagination |-> [current_page |-> 0, last_page |-> 0, total |-> 0]]]]

\* what the component renders (lines 848-912)
MainView(d, isLoading, hasError) ==
  /\ ~(isLoading /\ d.from = "null")
  /\ ~hasError
  /\ d.from # "null"
  /\ Len(d.users) > 0

NotFoundView(d, isLoading, hasError, query) ==
  /\ ~(isLoading /\ d.from = "null")
  /\ ~hasError
  /\ (d.from = "null" \/ Len(d.users) = 0)
  /\ query # <<>>

\* line 1498: the load-more trigger is rendered
TriggerRendered(f, d, isLoading, hasError, hasMore, count, users) ==
  /\ MainView(d, isLoading, hasError)
  /\ f.sponsor_slug = ""
  /\ (hasMore \/ count < Len(users))

\* lines 190-218: the effect runs again when one of its dependencies
\* changed; it observes the trigger of the render it ran in, with the
\* state of that render in its closure.  An observer whose trigger left
\* the document observes nothing.
ObserverAfter ==
  IF <<filters'.sponsor_slug, allSponsorsHasMore', loadingMore', activeSearchQuery'>>
       # <<filters.sponsor_slug, allSponsorsHasMore, loadingMore, activeSearchQuery>>
  THEN [attached |-> /\ filters'.sponsor_slug = ""
                     /\ allSponsorsHasMore'
                     /\ TriggerRendered(filters', data', loading', error',
                                        allSponsorsHasMore', displayedCount',
                                        allSponsorsAggregatedUsers'),
        filters |-> filters',
        activeSearchQuery |-> activeSearchQuery',
        loadingMore |-> loadingMore',
        allSponsorsHasMore |-> allSponsorsHasMore',
        allSponsorsPageMap |-> allSponsorsPageMap',
        allSponsorsAggregatedUsers |-> allSponsorsAggregatedUsers',
        displayedCount |-> displayedCount']
  ELSE [observer EXCEPT !.attached =
          /\ @
          /\ TriggerRendered(filters', data', loading', error', allSponsorsHasMore',
                             displayedCount', allSponsorsAggregatedUsers')]

\* the component after mount: the effects of lines 166-187 have run with
\* the initial state, so the first call of fetchLeaderboard is in flight
Init ==
  /\ filters = InitialFilters
  /\ page = 1
  /\ activeSearchQuery = <<>>
  /\ data = NoData
  /\ loading = TRUE
  /\ loadingMore = FALSE
  /\ error = FALSE
  /\ allSponsorsPageMap = EmptyPageMap
  /\ allSponsorsAggregatedUsers = <<>>
  /\ allSponsorsHasMore = TRUE
  /\ displayedCount = DISPLAY_CHUNK
  /\ inflight = << Call(InitialFilters, <<>>, FALSE, EmptyPageMap, <<>>, DISPLAY_CHUNK) >>
  /\ observer = [attached |-> FALSE, filters |-> InitialFilters,
                 activeSearchQuery |-> <<>>, loadingMore |-> FALSE,
                 allSponsorsHasMore |-> TRUE, allSponsorsPageMap |-> EmptyPageMap,
                 allSponsorsAggregatedUsers |-> <<>>, displayedCount |-> DISPLAY_CHUNK]
  /\ rounds = 0
  /\ lastRound = NoRound
  /\ args = NoCall
  /\ returned = NotReturned
  /\ tokenPriceState = NullId
  /\ tokenInfoState = NULL_TOKEN_INFO
  /\ priceCalls = <<"walletconnect">>
  /\ NoSearchResults

\* ---------------------------------------------- Leaderboard.tsx: actions

removeAt(seq, i) == SubSeq(seq, 1, i - 1) \o SubSeq(seq, i + 1, Len(seq))

resetsLazyState(f) == f.sponsor_slug = ""

\* the effect of lines 132-164, run by the render in which
\* filters.sponsor_slug has changed: it asks for the price of the sponsor's
\* token (walletconnect's when no sponsor is selected) and leaves the calls
\* it made before running; "" stands for an undefined slug
tokenPriceEffect(slugBefore, slug) ==
  IF slug = slugBefore
  THEN UNCHANGED priceVars
  ELSE IF slug # "" /\ slug # "all"
  THEN priceCalls' = Append(priceCalls, slug) /\ UNCHANGED <<tokenPriceState, tokenInfoState>>
  ELSE IF slug = ""
  THEN priceCalls' = Append(priceCalls, "walletconnect")
       /\ UNCHANGED <<tokenPriceState, tokenInfoState>>
  ELSE tokenPriceState' = NullId /\ tokenInfoState' = NULL_TOKEN_INFO
       /\ UNCHANGED priceCalls

\* LeaderboardPage.handleFilterChange passes new filters.  The effect of
\* lines 166-179 resets the page and the lazy-loading state; the effect of
\* lines 181-187 of the same render calls fetchLeaderboard, which sees the
\* state of that render.  When the reset changed `page`, the next render
\* runs the effect of lines 181-187 once more.
FilterChange(newFilters) ==
  /\ filterKey(newFilters) # filterKey(filters)
  /\ rounds + (IF page # newFilters.page THEN 2 ELSE 1) <= MaxRounds
  /\ LET reset == resetsLazyState(newFilters)
         pageMapAfter == IF reset THEN EmptyPageMap ELSE allSponsorsPageMap
         usersAfter == IF reset THEN <<>> ELSE allSponsorsAggregatedUsers
         countAfter == IF reset THEN DISPLAY_CHUNK ELSE displayedCount
         first == Call([newFilters EXCEPT !.page = page], activeSearchQuery, FALSE,
                       allSponsorsPageMap, allSponsorsAggregatedUsers, displayedCount)
         second == Call(newFilters, activeSearchQuery, FALSE,
                        pageMapAfter, usersAfter, countAfter)
     IN /\ filters' = newFilters
        /\ page' = newFilters.page
        /\ allSponsorsPageMap' = pageMapAfter
        /\ allSponsorsAggregatedUsers' = usersAfter
        /\ allSponsorsHasMore' = (reset \/ allSponsorsHasMore)
        /\ displayedCount' = countAfter
        /\ inflight' = IF page # newFilters.page
                       THEN inflight \o <<first, second>>
                       ELSE Append(inflight, first)
        /\ rounds' = rounds + (IF page # newFilters.page THEN 2 ELSE 1)
  /\ loading' = TRUE
  /\ error' = FALSE
  /\ UNCHANGED <<activeSearchQuery, data, loadingMore, lastRound>>
  /\ observer' = ObserverAfter
  /\ tokenPriceEffect(filters.sponsor_slug, newFilters.sponsor_slug)
  /\ UNCHANGED <<args, returned, searchVars>>

\* lines 809-813, the pagination of the single-sponsor table (lines 1572-1650)
PageChange(newPage) ==
  /\ MainView(data, loading, error)
  /\ filters.sponsor_slug # ""
  /\ data.pagination.last_page > 1
  /\ ~loading
  /\ newPage >= 1 /\ newPage <= data.pagination.last_page
  /\ newPage # page
  /\ rounds < MaxRounds
  /\ page' = newPage
  /\ inflight' = Append(inflight,
       Call([filters EXCEPT !.page = newPage], activeSearchQuery, FALSE,
            allSponsorsPageMap, allSponsorsAggregatedUsers, displayedCount))
  /\ rounds' = rounds + 1
  /\ loading' = TRUE
  /\ error' = FALSE
  /\ UNCHANGED <<filters, activeSearchQuery, data, loadingMore, allSponsorsPageMap,
                 allSponsorsAggregatedUsers, allSponsorsHasMore, displayedCount, lastRound>>
  /\ observer' = ObserverAfter
  /\ UNCHANGED <<args, returned, priceVars, searchVars>>

\* the effect of lines 181-187 after activeSearchQuery or page changed
startSearchRound(query) ==
  /\ rounds < MaxRounds
  /\ activeSearchQuery' = query
  /\ page' = 1
  /\ inflight' = Append(inflight,
       Call([filters EXCEPT !.page = 1], query, FALSE,
            allSponsorsPageMap, allSponsorsAggregatedUsers, displayedCount))
  /\ rounds' = rounds + 1
  /\ loading' = TRUE
  /\ error' = FALSE
  /\ UNCHANGED <<filters, data, loadingMore, allSponsorsPageMap,
                 allSponsorsAggregatedUsers, allSponsorsHasMore, displayedCount, lastRound>>
  /\ observer' = ObserverAfter
  /\ UNCHANGED <<args, returned, priceVars, searchVars>>

\* lines 116-119: the search button and the Enter key, both disabled while loading
handleSearch(query) ==
  /\ MainView(data, loading, error)
  /\ ~loading
  /\ query # activeSearchQuery \/ page # 1
  /\ startSearchRound(query)

\* lines 121-125: the clear buttons are not disabled while loading
handleClearSearch ==
  /\ \/ MainView(data, loading, error)
     \/ NotFoundView(data, loading, error, activeSearchQuery)
  /\ activeSearchQuery # <<>> \/ page # 1
  /\ startSearchRound(<<>>)

\* lines 1510-1539: the button reveals aggregated builders not yet displayed
ShowMore ==
  /\ TriggerRendered(filters, data, loading, error, allSponsorsHasMore,
                     displayedCount, allSponsorsAggregatedUsers)
  /\ ~loadingMore
  /\ LET filteredLength == Len(applySearch(allSponsorsAggregatedUsers, activeSearchQuery))
         newDisplayedCount == Min(displayedCount + DISPLAY_CHUNK, filteredLength)
         ranked == rankDisplayed(allSponsorsAggregatedUsers, activeSearchQuery,
                                 newDisplayedCount)
         filteredUsers == applySearch(ranked, activeSearchQuery)
     IN /\ displayedCount < filteredLength
        /\ displayedCount' = newDisplayedCount
        /\ allSponsorsAggregatedUsers' = ranked
        /\ data' = [users |-> SubSeq(filteredUsers, 1, newDisplayedCount),
                    pagination |-> paginationOf(filteredUsers),
                    from |-> "showMore"]
  /\ UNCHANGED <<filters, page, activeSearchQuery, loading, loadingMore, error,
                 allSponsorsPageMap, allSponsorsHasMore, inflight, rounds, lastRound>>
  /\ observer' = ObserverAfter
  /\ UNCHANGED <<args, returned, priceVars, searchVars>>

startLoadMore(call) ==
  /\ rounds < MaxRounds
  /\ inflight' = Append(inflight, call)
  /\ rounds' = rounds + 1
  /\ loadingMore' = TRUE
  /\ UNCHANGED <<filters, page, activeSearchQuery, data, loading, error,
                 allSponsorsPageMap, allSponsorsAggregatedUsers, allSponsorsHasMore,
                 displayedCount, lastRound>>
  /\ observer' = ObserverAfter
  /\ UNCHANGED <<args, returned, priceVars, searchVars>>

\* lines 1540-1547: nothing left to reveal, the button starts a round
LoadMore ==
  /\ TriggerRendered(filters, data, loading, error, allSponsorsHasMore,
                     displayedCount, allSponsorsAggregatedUsers)
  /\ ~loadingMore
  /\ ~(displayedCount < Len(applySearch(allSponsorsAggregatedUsers, activeSearchQuery)))
  /\ startLoadMore(Call([filters EXCEPT !.page = 1], activeSearchQuery, TRUE,
                        allSponsorsPageMap, allSponsorsAggregatedUsers, displayedCount))

\* lines 193-206: the trigger scrolls into view
ObserverFires ==
  /\ observer.attached
  /\ ~observer.loadingMore /\ observer.allSponsorsHasMore
  /\ startLoadMore(Call([observer.filters EXCEPT !.page = 1], observer.activeSearchQuery,
                        TRUE, observer.allSponsorsPageMap,
                        observer.allSponsorsAggregatedUsers, observer.displayedCount))

\* history: the round that completes continues the rounds completed so far
\* as the round made on mount followed by load-more rounds, each started
\* from what the one before handed over, with every request fulfilled
continuesChain(call, rejected) ==
  /\ lastRound.chain
  /\ rejected = {}
  /\ call.filters = Call(InitialFilters, <<>>, FALSE, EmptyPageMap, <<>>, 0).filters
  /\ IF lastRound.n = 0
     THEN ~call.isLoadMore /\ call.allSponsorsPageMap = EmptyPageMap
     ELSE call.isLoadMore /\ call.allSponsorsPageMap = lastRound.r.newPageMap

\* lines 228-248 and the setters of lines 325-450: what the round hands over
\* is rendered
applyRound(call, rejected, r) ==
  /\ allSponsorsPageMap' = r.newPageMap
  /\ allSponsorsHasMore' = r.hasMoreData
  /\ allSponsorsAggregatedUsers' = r.combinedUsers
  /\ displayedCount' = r.currentDisplayedCount
  /\ data' = [users |-> r.result.users, pagination |-> r.result.pagination, from |-> "all"]
  /\ loading' = IF call.isLoadMore THEN loading ELSE FALSE
  /\ loadingMore' = IF call.isLoadMore THEN FALSE ELSE loadingMore
  /\ lastRound' = [n |-> lastRound.n + 1, call |-> call, rejected |-> rejected,
                   chain |-> continuesChain(call, rejected), r |-> r]

\* lines 228-248 for an all-sponsors call: the awaited fetchAllSponsorsLazy
\* settles and everything it hands to the state setters is rendered
CompleteAllSponsors(i, rejected, priceOutcome) ==
  /\ i \in 1..Len(inflight)
  /\ inflight[i].filters.sponsor_slug = ""
  /\ applyRound(inflight[i], rejected,
                fetchAllSponsorsLazy(inflight[i], rejected, priceOutcome))
  /\ inflight' = removeAt(inflight, i)
  /\ UNCHANGED <<filters, page, activeSearchQuery, error, rounds>>
  /\ observer' = ObserverAfter
  /\ UNCHANGED <<args, returned, priceVars, searchVars>>

\* lines 235-248 for a single-sponsor call: getLeaderboard is answered or throws
CompleteSingleSponsor(i, answered) ==
  /\ i \in 1..Len(inflight)
  /\ inflight[i].filters.sponsor_slug # ""
  /\ LET call == inflight[i]
         response == UpstreamResponse(call.filters.sponsor_slug, call.filters.page)
     IN /\ data' = IF answered
                   THEN [users |-> response.users, pagination |-> response.pagination,
                         from |-> "single"]
                   ELSE data
        /\ error' = IF answered THEN error ELSE TRUE
        /\ loading' = IF call.isLoadMore THEN loading ELSE FALSE
        /\ loadingMore' = IF call.isLoadMore THEN FALSE ELSE loadingMore
  /\ inflight' = removeAt(inflight, i)
  /\ UNCHANGED <<filters, page, activeSearchQuery, allSponsorsPageMap,
                 allSponsorsAggregatedUsers, allSponsorsHasMore, displayedCount,
                 rounds, lastRound>>
  /\ observer' = ObserverAfter
  /\ UNCHANGED <<args, returned, priceVars, searchVars>>

Next ==
  \/ \E newFilters \in AppliedFilters : FilterChange(newFilters)
  \/ \E newPage \in 1..2 : PageChange(newPage)
  \/ \E query \in SearchQueries : handleSearch(query)
  \/ handleClearSearch
  \/ ShowMore
  \/ LoadMore
  \/ ObserverFires
  \/ \E i \in 1..Len(inflight), rejected \in RejectedSets, priceOutcome \in RoundPriceOutcomes :
       CompleteAllSponsors(i, rejected, priceOutcome)
  \/ \E i \in 1..Len(inflight), answered \in BOOLEAN : CompleteSingleSponsor(i, answered)

Spec == Init /\ [][Next]_vars

\* ------------------------------------- Leaderboard.tsx: the token price

\* the filters applied while the token price is followed: those above and
\* sponsors whose token is not walletconnect's
PriceFilters ==
  AppliedFilters \cup
  { [sponsor_slug |-> "celo", grant_id |-> NullId, per_page |-> NullId, page |-> 1],
    [sponsor_slug |-> "talent-protocol", grant_id |-> NullId, per_page |-> NullId,
     page |-> 1] }

\* lines 136-145 and 149-158: a promise of getTokenPrice settles; then
\* stores the price and the token, catch stores null for both
PriceSettles(i, outcome) ==
  /\ i \in 1..Len(priceCalls)
  /\ LET resolution == getTokenPrice(priceCalls[i], outcome)
     IN /\ tokenPriceState' = IF resolution.rejected THEN NullId ELSE resolution.price
        /\ tokenInfoState' = IF resolution.rejected THEN NULL_TOKEN_INFO
                             ELSE resolution.tokenInfo
  /\ priceCalls' = removeAt(priceCalls, i)
  /\ UNCHANGED <<args, returned, leaderboardVars, searchVars>>

TokenPriceNext ==
  \/ \E newFilters \in PriceFilters : FilterChange(newFilters)
  \/ \E i \in 1..Len(priceCalls), outcome \in RoundPriceOutcomes : PriceSettles(i, outcome)

TokenPriceSpec == Init /\ [][TokenPriceNext]_vars

\* ----------------------------------------- SearchResults.tsx: actions

\* lines 28-29: performSearch up to its await
performSearchStarts(state) == [state EXCEPT !.loading = TRUE, !.error = FALSE]

\* line 35 with the new page put in front of the list
appendPageInFront(prev, results) == results \o prev

\* line 35: [...prev, ...response.results]
appendPage(prev, results) == prev \o results

\* lines 100-204: the list is rendered (none of the returns of lines 55-98
\* is taken), with the button of lines 192-204, which is not disabled
LoadMoreEnabled(state) ==
  /\ ~(state.loading /\ Len(state.results) = 0)
  /\ ~state.error
  /\ ~(Len(state.results) = 0 /\ ~state.loading)
  /\ state.hasMore
  /\ ~state.loading

\* the component after mount: the effect of lines 21-25 has run, so the
\* search for page 1 is in flight
SearchInit ==
  /\ \E searchFilters \in SearchFilterSets :
       /\ searchResults = performSearchStarts(SearchResultsState(searchFilters))
       /\ searchInflight =
            <<SearchCall(searchFilters, 1, "effect", SearchResultsState(searchFilters))>>
  /\ searchHistory = [NoSearchHistory EXCEPT !.started = 1]
  /\ filters = InitialFilters
  /\ page = 1
  /\ activeSearchQuery = <<>>
  /\ data = NoData
  /\ loading = FALSE
  /\ loadingMore = FALSE
  /\ error = FALSE
  /\ allSponsorsPageMap = EmptyPageMap
  /\ allSponsorsAggregatedUsers = <<>>
  /\ allSponsorsHasMore = TRUE
  /\ displayedCount = DISPLAY_CHUNK
  /\ inflight = <<>>
  /\ observer = [attached |-> FALSE, filters |-> InitialFilters,
                 activeSearchQuery |-> <<>>, loadingMore |-> FALSE,
                 allSponsorsHasMore |-> TRUE, allSponsorsPageMap |-> EmptyPageMap,
                 allSponsorsAggregatedUsers |-> <<>>, displayedCount |-> DISPLAY_CHUNK]
  /\ rounds = 0
  /\ lastRound = NoRound
  /\ args = NoCall
  /\ returned = NotReturned
  /\ tokenPriceState = NullId
  /\ tokenInfoState = NULL_TOKEN_INFO
  /\ priceCalls = <<>>

\* lines 21-25: the filters prop has changed (JSON.stringify differs); the
\* effect resets page and results and searches page 1
SearchFiltersChange(newFilters) ==
  /\ newFilters # searchResults.filters
  /\ searchHistory.started < MaxSearches
  /\ searchResults' =
       performSearchStarts([searchResults EXCEPT !.filters = newFilters,
                                                 !.page = 1, !.results = <<>>])
  /\ searchInflight' =
       Append(searchInflight, SearchCall(newFilters, 1, "effect", searchResults))
  /\ searchHistory' = [searchHistory EXCEPT !.started = @ + 1, !.changed = TRUE]
  /\ UNCHANGED <<args, returned, leaderboardVars, priceVars>>

\* lines 47-53, called by the button of lines 192-204
loadMore ==
  /\ LoadMoreEnabled(searchResults)
  /\ ~searchResults.loading /\ searchResults.hasMore
  /\ searchHistory.started < MaxSearches
  /\ LET nextPage == searchResults.page + 1
     IN /\ searchResults' = performSearchStarts([searchResults EXCEPT !.page = nextPage])
        /\ searchInflight' =
             Append(searchInflight,
                    SearchCall(searchResults.filters, nextPage, "loadMore", searchResults))
  /\ searchHistory' = [searchHistory EXCEPT !.started = @ + 1]
  /\ UNCHANGED <<args, returned, leaderboardVars, priceVars>>

\* lines 30-44: searchBuilders has answered a call; page 1 replaces the
\* list, a later page is appended
PerformSearchResolves(i, response) ==
  /\ i \in 1..Len(searchInflight)
  /\ LET call == searchInflight[i]
     IN /\ searchResults' =
             [searchResults EXCEPT
                !.results = IF call.pageNum = 1 THEN response.results
                            ELSE appendPage(@, response.results),
                !.hasMore = response.hasMore,
                !.total = response.total,
                !.loading = FALSE]
        /\ searchHistory' =
             [searchHistory EXCEPT
                !.responses[call.pageNum] = [received |-> TRUE, results |-> response.results]]
  /\ searchInflight' = removeAt(searchInflight, i)
  /\ UNCHANGED <<args, returned, leaderboardVars, priceVars>>

\* lines 39-44: searchBuilders has thrown
PerformSearchRejects(i) ==
  /\ i \in 1..Len(searchInflight)
  /\ searchResults' = [searchResults EXCEPT !.error = TRUE, !.loading = FALSE]
  /\ searchInflight' = removeAt(searchInflight, i)
  /\ UNCHANGED <<searchHistory, args, returned, leaderboardVars, priceVars>>

SearchNext ==
  \/ \E newFilters \in SearchFilterSets : SearchFiltersChange(newFilters)
  \/ loadMore
  \/ \E i \in 1..Len(searchInflight), response \in SearchResponses :
       PerformSearchResolves(i, response)
  \/ \E i \in 1..Len(searchInflight) : PerformSearchRejects(i)

SearchSpec == SearchInit /\ [][SearchNext]_vars

\* -------------------------------------- the pagination of a collection

\* line 776
perPage == 30

\* Array.prototype.slice(start, end) for 0 <= start <= end
slice(arr, start, end) == SubSeq(arr, Min(start, Len(arr)) + 1, Min(end, Len(arr)))

\* fetchAllSponsors, lines 773-797: the page of the sorted collection that
\* filters.page asks for (0 stands for an undefined page)
paginatedResult(combinedUsers, filtersPage) ==
  LET currentPage == IF filtersPage = 0 THEN 1 ELSE filtersPage
      startIndex == (currentPage - 1) * perPage
      endIndex == startIndex + perPage
      paginatedUsers == slice(combinedUsers, startIndex, endIndex)
  IN [users |-> [index \in 1..Len(paginatedUsers) |->
                   [paginatedUsers[index] EXCEPT !.leaderboard_position = startIndex + index]],
      pagination |-> [current_page |-> currentPage,
                      last_page |-> ceilDiv(Len(combinedUsers), perPage),
                      total |-> Len(combinedUsers)]]

\* the sorted collection lines 340-430 make of one walletconnect page of n
\* builders (the service is asked for pages of 100)
CollectionOf(n) ==
  LET price == getTokenPrice("walletconnect", [fetched |-> FALSE, ok |-> FALSE, usd |-> 0])
  IN sortByTotal(finalizeUsers(
       mergeUsers(<<>>, [i \in 1..n |-> RankedBuilder(i)], "walletconnect",
                  price.price, price.tokenInfo)))

\* a collection of any size up to MaxCollection is about to be paginated,
\* with any page asked for
PaginationInit ==
  /\ filters = InitialFilters
  /\ page \in 0..MaxPage
  /\ activeSearchQuery = <<>>
  /\ data = NoData
  /\ loading = TRUE
  /\ loadingMore = FALSE
  /\ error = FALSE
  /\ allSponsorsPageMap = EmptyPageMap
  /\ \E n \in 0..MaxCollection : allSponsorsAggregatedUsers = CollectionOf(n)
  /\ allSponsorsHasMore = FALSE
  /\ displayedCount = DISPLAY_CHUNK
  /\ inflight = <<>>
  /\ observer = [attached |-> FALSE, filters |-> InitialFilters,
                 activeSearchQuery |-> <<>>, loadingMore |-> FALSE,
                 allSponsorsHasMore |-> FALSE, allSponsorsPageMap |-> EmptyPageMap,
                 allSponsorsAggregatedUsers |-> <<>>, displayedCount |-> DISPLAY_CHUNK]
  /\ rounds = 0
  /\ lastRound = NoRound
  /\ args = NoCall
  /\ returned = NotReturned
  /\ tokenPriceState = NullId
  /\ tokenInfoState = NULL_TOKEN_INFO
  /\ priceCalls = <<>>
  /\ NoSearchResults

\* lines 773-797 applied to the collection and the page asked for
PaginateAll ==
  /\ data.from = "null"
  /\ LET result == paginatedResult(allSponsorsAggregatedUsers, page)
     IN data' = [users |-> result.users, pagination |-> result.pagination,
                 from |-> "paged"]
  /\ loading' = FALSE
  /\ UNCHANGED <<filters, page, activeSearchQuery, loadingMore, error,
                 allSponsorsPageMap, allSponsorsAggregatedUsers, allSponsorsHasMore,
                 displayedCount, inflight, rounds, lastRound>>
  /\ observer' = ObserverAfter
  /\ UNCHANGED <<args, returned, priceVars, searchVars>>

\* lines 433-464 applied to the collection by a round that is not a
\* load-more round, and the state setters of lines 228-248
PaginateLazy ==
  /\ data.from = "null"
  /\ LET call == Call(filters, activeSearchQuery, FALSE, allSponsorsPageMap,
                      allSponsorsAggregatedUsers, displayedCount)
     IN applyRound(call, {},
          rankAndDisplay(call, allSponsorsPageMap, allSponsorsHasMore,
            allSponsorsAggregatedUsers,
            nextDisplayedCount(FALSE, displayedCount, Len(allSponsorsAggregatedUsers))))
  /\ UNCHANGED <<filters, page, activeSearchQuery, error, inflight, rounds>>
  /\ observer' = ObserverAfter
  /\ UNCHANGED <<args, returned, priceVars, searchVars>>

PaginationNext ==
  \/ PaginateAll
  \/ PaginateLazy
  \/ ShowMore

PaginationSpec == PaginationInit /\ [][PaginationNext]_vars

\* ------------------------------------ builder-analytics (part_007)
\* The file defines its functions twice; the definitions of lines 1-273
\* are modelled, and of lines 275-507 getTrendingBuilder, whose scoring
\* differs.  Scores that the source computes with the factors 0.2 and 0.8
\* are kept times 10, so that they are integers.

WEIGHTS ==
  [SCORE_MCAP |-> 3, TRENDING_BONUS |-> 5, TRENDING_CHANGE_MULTIPLIER |-> 15,
   HUMAN_CHECKMARK |-> 150, VERIFIED_NATIONALITY |-> 75, BIO |-> 40,
   LOCATION |-> 30, IMAGE |-> 20, TAG |-> 15]

\* a LeaderboardUser with the fields the selectors read; tags is the
\* number of tags
AnalyticsUser(id, amount, position, change, points, human, nationality, bio, location, image, tags) ==
  [id |-> id,
   reward_amount |-> amount,
   leaderboard_position |-> position,
   ranking_change |-> change,
   profile |-> [builder_score |-> [points |-> points],
                human_checkmark |-> human,
                verified_nationality |-> nationality,
                bio |-> bio, location |-> location, image_url |-> image,
                tags |-> tags]]

\* the builders the lists are made of: 1 and 2 earn and score the same,
\* 1, 2 and 3 have no positive ranking change, 4 and 5 differ in nothing
\* but the id, 6 has an unparsable reward and no position
AnalyticsPool ==
  << AnalyticsUser(1, numberAmount(5), 1, 0, 100, TRUE, FALSE, <<"a">>, <<>>, <<"i">>, 1),
     AnalyticsUser(2, stringAmount(<<"5">>), 30, 0 - 1, 100, FALSE, TRUE, <<>>, <<"l">>, <<>>, 0),
     AnalyticsUser(3, numberAmount(0), 15, 0, 0, FALSE, FALSE, <<>>, <<>>, <<>>, 0),
     AnalyticsUser(4, numberAmount(1), 100, 2, 0, FALSE, FALSE, <<>>, <<>>, <<>>, 2),
     AnalyticsUser(5, stringAmount(<<"1">>), 100, 2, 0, FALSE, FALSE, <<>>, <<>>, <<>>, 2),
     AnalyticsUser(6, stringAmount(<<>>), NullId, 3, 40, TRUE, TRUE, <<"b">>, <<"l">>, <<"i">>, 3) >>

\* Math.abs
abs(n) == IF n < 0 THEN 0 - n ELSE n

\* lines 46-50: a string that parseFloat cannot read gives NaN, hence 0
getRewardAmount(user) ==
  IF user.reward_amount.t = "string"
  THEN IF user.reward_amount.s = <<>> THEN 0 ELSE parseFloat(user.reward_amount.s)
  ELSE user.reward_amount.n

\* lines 52-54
getSafePosition(user) ==
  Max(1, IF user.leaderboard_position = NullId THEN 1000 ELSE user.leaderboard_position)

\* lines 63-106; the sum is kept times 10000 until Math.round
calculateMCAP(user, tokenPrice) ==
  LET earningsUSD == getRewardAmount(user) * tokenPrice
      score == user.profile.builder_score.points
      position == getSafePosition(user)
      rankingChange == user.ranking_change
      positionMultiplier == Max(100, Min(1000, 1000 - (position - 1)))
      trendingBonus == IF rankingChange > 0 THEN rankingChange * WEIGHTS.TRENDING_BONUS ELSE 0
      activityBonus == (IF user.profile.human_checkmark THEN 50 ELSE 0)
                       + (IF user.profile.verified_nationality THEN 30 ELSE 0)
                       + user.profile.tags * 5
      total == earningsUSD * 4000 + score * WEIGHTS.SCORE_MCAP * 10000
               + earningsUSD * positionMultiplier * 2
               + (trendingBonus + activityBonus) * 10000
  IN (total + 5000) \div 10000

\* a reduce that keeps the later of two equal scores
RECURSIVE reduceFromLatest(_, _, _, _)
reduceFromLatest(scores, pool, k, best) ==
  IF k > Len(pool) THEN best
  ELSE reduceFromLatest(scores, pool, k + 1,
                        IF scores[pool[k]] >= scores[best] THEN pool[k] ELSE best)

\* pool.reduce((best, user) => score(user) > score(best) ? user : best)
\* for a pool that is not empty; pool holds the indices in `users` of the
\* objects reduced over, scores the score of every user; the value is the
\* index of the object returned
RECURSIVE reduceFrom(_, _, _, _)
reduceFrom(scores, pool, k, best) ==
  IF k > Len(pool) THEN best
  ELSE reduceFrom(scores, pool, k + 1,
                  IF scores[pool[k]] > scores[best] THEN pool[k] ELSE best)

reduceMax(scores, pool) == reduceFrom(scores, pool, 2, pool[1])

\* the indices of all users, in order
allOf(users) == [i \in 1..Len(users) |-> i]

\* The selectors return the index in `users` of the object they return,
\* 0 for null.

earningsScores(users) == [i \in 1..Len(users) |-> getRewardAmount(users[i])]

\* lines 112-120
getMostEarnings(users) ==
  IF Len(users) = 0 THEN 0 ELSE reduceMax(earningsScores(users), allOf(users))

\* lines 132-140, times 10
trendingScores(users) ==
  [i \in 1..Len(users) |->
     abs(users[i].ranking_change) * WEIGHTS.TRENDING_CHANGE_MULTIPLIER * 10
     + (IF getSafePosition(users[i]) <= 10 THEN 1000
        ELSE IF getSafePosition(users[i]) <= 50 THEN 500 ELSE 0)
     + users[i].profile.builder_score.points * 2]

\* line 127
positiveTrend(users) ==
  SelectSeq(allOf(users), LAMBDA i : users[i].ranking_change > 0)

\* line 129
trendingPool(users) ==
  IF Len(positiveTrend(users)) # 0 THEN positiveTrend(users) ELSE allOf(users)

\* lines 122-154
getTrendingBuilder(users) ==
  IF Len(users) = 0 THEN 0 ELSE reduceMax(trendingScores(users), trendingPool(users))

\* a position used as a number: null counts as 0
positionNumber(user) ==
  IF user.leaderboard_position = NullId THEN 0 ELSE user.leaderboard_position

\* lines 362-365, times 10: the scoring of the second definition when no
\* builder has a positive change
fallbackTrendingScores(users) ==
  [i \in 1..Len(users) |->
     abs(users[i].ranking_change) * 50
     + (IF positionNumber(users[i]) <= 20
        THEN (100 - positionNumber(users[i])) * 10 ELSE 0)
     + users[i].profile.builder_score.points * 2]

\* lines 378-381, times 10
positiveTrendingScores(users) ==
  [i \in 1..Len(users) |->
     users[i].ranking_change * 150
     + (IF positionNumber(users[i]) <= 10 THEN 1000
        ELSE IF positionNumber(users[i]) <= 50 THEN 500 ELSE 0)
     + users[i].profile.builder_score.points * 2]

\* lines 353-390, the second definition
getTrendingBuilder2(users) ==
  IF Len(users) = 0 THEN 0
  ELSE IF Len(positiveTrend(users)) = 0
       THEN reduceMax(fallbackTrendingScores(users), allOf(users))
       ELSE reduceMax(positiveTrendingScores(users), positiveTrend(users))

pointsScores(users) == [i \in 1..Len(users) |-> users[i].profile.builder_score.points]

\* lines 156-167
getHighestScore(users) ==
  IF Len(users) = 0 THEN 0 ELSE reduceMax(pointsScores(users), allOf(users))

\* lines 175-182: the MCAP is cached under the id of the user
getMCAP(users, i, tokenPrice) ==
  calculateMCAP(users[CHOOSE j \in 1..i :
                        /\ users[j].id = users[i].id
                        /\ \A h \in 1..(j - 1) : users[h].id # users[i].id],
                tokenPrice)

\* lines 185-203
featuredScores(users, tokenPrice) ==
  [i \in 1..Len(users) |->
     getMCAP(users, i, tokenPrice)
     + (IF users[i].profile.human_checkmark THEN WEIGHTS.HUMAN_CHECKMARK ELSE 0)
     + (IF users[i].profile.verified_nationality THEN WEIGHTS.VERIFIED_NATIONALITY ELSE 0)
     + (IF users[i].profile.bio # <<>> THEN 25 ELSE 0)]

\* lines 169-207
getFeaturedBuilder(users, tokenPrice) ==
  IF Len(users) = 0 THEN 0
  ELSE reduceMax(featuredScores(users, tokenPrice), allOf(users))

\* lines 215-224, times 10
soughtAfterScores(users) ==
  [i \in 1..Len(users) |->
     ((IF users[i].profile.human_checkmark THEN WEIGHTS.HUMAN_CHECKMARK ELSE 0)
      + (IF users[i].profile.verified_nationality THEN WEIGHTS.VERIFIED_NATIONALITY ELSE 0)
      + (IF users[i].profile.bio # <<>> THEN WEIGHTS.BIO ELSE 0)
      + (IF users[i].profile.location # <<>> THEN WEIGHTS.LOCATION ELSE 0)
      + (IF users[i].profile.image_url # <<>> THEN WEIGHTS.IMAGE ELSE 0)
      + users[i].profile.tags * WEIGHTS.TAG) * 10
     + users[i].profile.builder_score.points * 8]

\* lines 209-228
getSoughtAfterBuilder(users) ==
  IF Len(users) = 0 THEN 0 ELSE reduceMax(soughtAfterScores(users), allOf(users))

\* the five categories in the order categorizeBuilders sets them
BuilderCategories ==
  <<"most_earnings", "trending", "highest_score", "featured", "sought_after">>

\* the selector of a category
selectorOf(category, users, tokenPrice) ==
  CASE category = "most_earnings" -> getMostEarnings(users)
    [] category = "trending" -> getTrendingBuilder(users)
    [] category = "highest_score" -> getHighestScore(users)
    [] category = "featured" -> getFeaturedBuilder(users, tokenPrice)
    [] category = "sought_after" -> getSoughtAfterBuilder(users)

\* lines 247-251: map.set(winner.id, category), category after category
RECURSIVE setCategories(_, _, _, _)
setCategories(map, users, tokenPrice, k) ==
  IF k > Len(BuilderCategories) THEN map
  ELSE LET winner == selectorOf(BuilderCategories[k], users, tokenPrice)
       IN setCategories(
            IF winner # 0
            THEN mapSet(map, [key |-> users[winner].id, value |-> BuilderCategories[k]])
            ELSE map,
            users, tokenPrice, k + 1)

\* lines 234-254: the Map from builder id to category
categorizeBuilders(users, tokenPrice) ==
  IF Len(users) = 0 THEN <<>> ELSE setCategories(<<>>, users, tokenPrice, 1)

\* ------------------------------------------ proxy routes (part_003)
\* Texts are sequences of words, <<>> for a missing or empty one.

\* the values an upstream body parses to: null, a payload, an object with a
\* message, an object with an error, an object with neither
JsonNull == [t |-> "null", message |-> <<>>, error |-> <<>>]

JsonValues ==
  {JsonNull}
  \cup {[t |-> "object", message |-> m, error |-> e] :
          m \in {<<>>, <<"upstream message">>}, e \in {<<>>, <<"upstream error">>}}

\* the statuses an upstream answers with
UpstreamStatuses == {200, 204, 302, 304, 404, 500, 503}

\* the content-type header of an upstream answer, <<>> when there is none
ContentTypes ==
  {<<>>, <<"application/json">>, <<"text/html">>, <<"text/plain">>}

\* what fetch(url) does: it rejects, or resolves to a response with a
\* status, a content type and a body that parses as JSON to `value` or
\* does not parse
UpstreamOutcomes ==
  {[rejects |-> TRUE, status |-> 0, contentType |-> <<>>, parses |-> FALSE,
    value |-> JsonNull]}
  \cup {[rejects |-> FALSE, status |-> st, contentType |-> ct, parses |-> FALSE,
         value |-> JsonNull] : st \in UpstreamStatuses, ct \in ContentTypes}
  \cup {[rejects |-> FALSE, status |-> st, contentType |-> ct, parses |-> TRUE,
         value |-> v] : st \in UpstreamStatuses, ct \in ContentTypes, v \in JsonValues}

\* response.ok
ok(response) == response.status >= 200 /\ response.status <= 299

errorBody(text) == [kind |-> "error", error |-> text, data |-> JsonNull]

dataBody(value) == [kind |-> "data", error |-> <<>>, data |-> value]

\* a response that reports every outcome as a success
NextResponseJsonOk(body, status) ==
  [threw |-> FALSE, status |-> 200, body |-> body]

\* NextResponse.json(body, {status}): the Response constructor throws for
\* a status that allows no body and for one outside 200..599
NextResponseJson(body, status) ==
  IF status \in {204, 205, 304} \/ status < 200 \/ status > 599
  THEN [threw |-> TRUE, status |-> 0, body |-> errorBody(<<>>)]
  ELSE [threw |-> FALSE, status |-> status, body |-> body]

Thrown == [threw |-> TRUE, status |-> 0, body |-> errorBody(<<>>)]

\* the result of a handler: the response it returns and the number of
\* upstream calls it made
handled(response, fetches) ==
  [status |-> IF response.threw THEN "threw" ELSE "responded",
   response |-> [status |-> response.status, body |-> response.body],
   fetches |-> fetches]

\* a || b || c on texts
firstOf(a, b, c) == orElse(a, orElse(b, c))

\* lines 37-71, the try block of the builderscore route
builderscoreTry(upstream) ==
  IF upstream.rejects THEN Thrown
  ELSE IF ~ok(upstream)
  THEN LET errorJson == IF upstream.parses THEN upstream.value
                        ELSE [t |-> "object", message |-> <<"API request failed">>,
                              error |-> <<>>]
       IN IF errorJson.t = "null" THEN Thrown
          ELSE NextResponseJson(
                 errorBody(firstOf(errorJson.message, errorJson.error,
                                   <<"API error: ">>)),
                 upstream.status)
  ELSE IF ~upstream.parses THEN Thrown
  ELSE NextResponseJson(dataBody(upstream.value), 200)

\* lines 17-79: GET of the builderscore route
builderscoreGET(hasBaseUrl, hasEndpoint, upstream) ==
  IF ~hasBaseUrl
  THEN handled(NextResponseJson(errorBody(<<"NEXT_PUBLIC_BUILDERSCORE_API_URL", "required">>), 500), 0)
  ELSE IF ~hasEndpoint
  THEN handled(NextResponseJson(errorBody(<<"Endpoint parameter is required">>), 400), 0)
  ELSE IF builderscoreTry(upstream).threw
  THEN handled(NextResponseJson(errorBody(<<"Internal server error">>), 500), 1)
  ELSE handled(builderscoreTry(upstream), 1)

\* String.prototype.includes on a content type
typeIncludes(contentType, type) == contentType = <<type>>

\* lines 107-208, the try block of the talent route
talentTry(upstream) ==
  IF upstream.rejects THEN Thrown
  ELSE IF upstream.status >= 300 /\ upstream.status < 400
  THEN NextResponseJson(errorBody(<<"API authentication failed">>), 500)
  ELSE IF ~ok(upstream)
  THEN IF upstream.contentType # <<>> /\ typeIncludes(upstream.contentType, "text/html")
       THEN NextResponseJson(errorBody(<<"API returned HTML instead of JSON">>), 500)
       ELSE LET errorData == IF upstream.parses THEN upstream.value
                             ELSE [t |-> "object",
                                   message |-> <<"API request failed with status">>,
                                   error |-> <<>>]
            IN IF errorData.t = "null" THEN Thrown
               ELSE NextResponseJson(
                      errorBody(firstOf(errorData.message, errorData.error,
                                        <<"API error: ">>)),
                      IF upstream.status >= 500 THEN 500 ELSE upstream.status)
  ELSE IF upstream.contentType = <<>>
          \/ ~typeIncludes(upstream.contentType, "application/json")
  THEN NextResponseJson(errorBody(<<"API returned non-JSON response">>), 500)
  ELSE IF ~upstream.parses THEN Thrown
  ELSE NextResponseJson(dataBody(upstream.value), 200)

\* lines 84-216: GET of the talent route
talentGET(hasBaseUrl, hasEndpoint, upstream) ==
  IF ~hasBaseUrl
  THEN handled(NextResponseJson(errorBody(<<"NEXT_PUBLIC_TALENT_API_URL", "required">>), 500), 0)
  ELSE IF ~hasEndpoint
  THEN handled(NextResponseJson(errorBody(<<"Endpoint parameter is required">>), 400), 0)
  ELSE IF talentTry(upstream).threw
  THEN handled(NextResponseJson(errorBody(<<"Internal server error">>), 500), 1)
  ELSE handled(talentTry(upstream), 1)

\* ------------------------------------------------- library calls

\* the state of the Leaderboard component, which a library call leaves alone
\* the slugs getTokenPrice is called with: the sponsors, an undefined or
\* empty slug, and slugs that are not in SPONSOR_TOKENS
PriceSlugs == Sponsors \cup {"", "all", "optimism"}

GetTokenPriceCalls ==
  {[fn |-> "getTokenPrice", sponsorSlug |-> slug, outcome |-> outcome] :
     slug \in PriceSlugs, outcome \in PriceOutcomes}

\* the lists of builders handed to the selectors: up to MaxListed
\* different builders of the pool, in any order
UserLists ==
  UNION {{[i \in 1..n |-> AnalyticsPool[choice[i]]] :
            choice \in {c \in [1..n -> 1..Len(AnalyticsPool)] :
                          \A i, j \in 1..n : c[i] = c[j] => i = j}} :
         n \in 0..MaxListed}

\* Leaderboard.tsx line 819: 1 for all sponsors, else the token's price
TokenPrices == {1, 3}

\* the selectors that take the list only
ListSelectors ==
  {"getMostEarnings", "getTrendingBuilder", "getTrendingBuilder2",
   "getHighestScore", "getSoughtAfterBuilder"}

SelectorCalls ==
  {[fn |-> fn, users |-> users, tokenPrice |-> 1] :
     fn \in ListSelectors, users \in UserLists}
  \cup {[fn |-> fn, users |-> users, tokenPrice |-> tokenPrice] :
          fn \in {"getFeaturedBuilder", "categorizeBuilders"},
          users \in UserLists, tokenPrice \in TokenPrices}

\* a builder of another sponsor whose sponsor-scoped id is that of builder 3
\* of the pool; it earns, builder 3 does not
SharedIdBuilder ==
  AnalyticsUser(3, numberAmount(5), 2, 0, 0, FALSE, FALSE, <<>>, <<>>, <<>>, 0)

\* the lists that hold that builder among different builders of the pool
SharedIdLists ==
  UNION {{[i \in 1..n |-> IF i = at THEN SharedIdBuilder
                          ELSE AnalyticsPool[choice[IF i < at THEN i ELSE i - 1]]] :
            choice \in {c \in [1..(n - 1) -> 1..Len(AnalyticsPool)] :
                          \A i, j \in 1..(n - 1) : c[i] = c[j] => i = j},
            at \in 1..n} :
         n \in 1..MaxListed}

FeaturedCalls ==
  {[fn |-> "getFeaturedBuilder", users |-> users, tokenPrice |-> tokenPrice] :
     users \in SharedIdLists, tokenPrice \in TokenPrices}

\* the GET requests the proxy routes receive: with or without the base
\* URL variable and the endpoint parameter, and what the upstream does
RouteCalls ==
  {[fn |-> fn, hasBaseUrl |-> b, hasEndpoint |-> e, upstream |-> u] :
     fn \in {"builderscore.GET", "talent.GET"}, b \in BOOLEAN, e \in BOOLEAN,
     u \in UpstreamOutcomes}

\* the calls that are followed
UtilityCalls == GetTokenPriceCalls \cup SelectorCalls \cup FeaturedCalls \cup RouteCalls

\* a library function is about to be called
UtilityInit ==
  /\ filters = InitialFilters
  /\ page = 1
  /\ activeSearchQuery = <<>>
  /\ data = NoData
  /\ loading = FALSE
  /\ loadingMore = FALSE
  /\ error = FALSE
  /\ allSponsorsPageMap = EmptyPageMap
  /\ allSponsorsAggregatedUsers = <<>>
  /\ allSponsorsHasMore = TRUE
  /\ displayedCount = DISPLAY_CHUNK
  /\ inflight = <<>>
  /\ observer = [attached |-> FALSE, filters |-> InitialFilters,
                 activeSearchQuery |-> <<>>, loadingMore |-> FALSE,
                 allSponsorsHasMore |-> TRUE, allSponsorsPageMap |-> EmptyPageMap,
                 allSponsorsAggregatedUsers |-> <<>>, displayedCount |-> DISPLAY_CHUNK]
  /\ rounds = 0
  /\ lastRound = NoRound
  /\ args \in UtilityCalls
  /\ returned = NotReturned
  /\ tokenPriceState = NullId
  /\ tokenInfoState = NULL_TOKEN_INFO
  /\ priceCalls = <<>>
  /\ NoSearchResults

\* coingecko-api.ts, lines 109-156: the promise of getTokenPrice settles
GetTokenPriceSettles ==
  /\ args.fn = "getTokenPrice"
  /\ returned = NotReturned
  /\ LET promise == getTokenPrice(args.sponsorSlug, args.outcome)
     IN returned' = [status |-> IF promise.rejected THEN "rejected" ELSE "resolved",
                     price |-> promise.price,
                     tokenInfo |-> promise.tokenInfo,
                     requests |-> promise.requests]
  /\ UNCHANGED <<args, leaderboardVars, priceVars, searchVars>>

\* a selector has returned the object at `index` of its list, or null
selected(index) == [status |-> "returned", index |-> index]

GetMostEarningsReturns ==
  /\ args.fn = "getMostEarnings"
  /\ returned = NotReturned
  /\ returned' = selected(getMostEarnings(args.users))
  /\ UNCHANGED <<args, leaderboardVars, priceVars, searchVars>>

GetTrendingBuilderReturns ==
  /\ args.fn = "getTrendingBuilder"
  /\ returned = NotReturned
  /\ returned' = selected(getTrendingBuilder(args.users))
  /\ UNCHANGED <<args, leaderboardVars, priceVars, searchVars>>

GetTrendingBuilder2Returns ==
  /\ args.fn = "getTrendingBuilder2"
  /\ returned = NotReturned
  /\ returned' = selected(getTrendingBuilder2(args.users))
  /\ UNCHANGED <<args, leaderboardVars, priceVars, searchVars>>

GetHighestScoreReturns ==
  /\ args.fn = "getHighestScore"
  /\ returned = NotReturned
  /\ returned' = selected(getHighestScore(args.users))
  /\ UNCHANGED <<args, leaderboardVars, priceVars, searchVars>>

GetFeaturedBuilderReturns ==
  /\ args.fn = "getFeaturedBuilder"
  /\ returned = NotReturned
  /\ returned' = selected(getFeaturedBuilder(args.users, args.tokenPrice))
  /\ UNCHANGED <<args, leaderboardVars, priceVars, searchVars>>

GetSoughtAfterBuilderReturns ==
  /\ args.fn = "getSoughtAfterBuilder"
  /\ returned = NotReturned
  /\ returned' = selected(getSoughtAfterBuilder(args.users))
  /\ UNCHANGED <<args, leaderboardVars, priceVars, searchVars>>

CategorizeBuildersReturns ==
  /\ args.fn = "categorizeBuilders"
  /\ returned = NotReturned
  /\ returned' = [status |-> "returned",
                  map |-> categorizeBuilders(args.users, args.tokenPrice)]
  /\ UNCHANGED <<args, leaderboardVars, priceVars, searchVars>>

BuilderscoreGETResponds ==
  /\ args.fn = "builderscore.GET"
  /\ returned = NotReturned
  /\ returned' = builderscoreGET(args.hasBaseUrl, args.hasEndpoint, args.upstream)
  /\ UNCHANGED <<args, leaderboardVars, priceVars, searchVars>>

TalentGETResponds ==
  /\ args.fn = "talent.GET"
  /\ returned = NotReturned
  /\ returned' = talentGET(args.hasBaseUrl, args.hasEndpoint, args.upstream)
  /\ UNCHANGED <<args, leaderboardVars, priceVars, searchVars>>

UtilityNext ==
  \/ GetTokenPriceSettles
  \/ BuilderscoreGETResponds
  \/ TalentGETResponds
  \/ GetMostEarningsReturns
  \/ GetTrendingBuilderReturns
  \/ GetTrendingBuilder2Returns
  \/ GetHighestScoreReturns
  \/ GetFeaturedBuilderReturns
  \/ GetSoughtAfterBuilderReturns
  \/ CategorizeBuildersReturns

UtilitySpec == UtilityInit /\ [][UtilityNext]_vars

\* ------------------------------------------------------------ properties

\* the identity keys of a list of users, in list order
keysOf(users) == [i \in 1..Len(users) |-> getBuilderKey(users[i])]

\* the sponsors named by a builder's breakdown entries that name `slug`
entriesFor(user, slug) ==
  {k \in 1..Len(user.earningsBreakdown) : user.earningsBreakdown[k].sponsor = slug}

\* the sponsors of a builder as a set
sponsorSet(user) == {user.sponsors[k] : k \in 1..Len(user.sponsors)}

\* the records a sponsor serves over all its pages
servedBy(slug) ==
  UNION {{UpstreamPages[slug][p][k] : k \in 1..Len(UpstreamPages[slug][p])} :
           p \in 1..Len(UpstreamPages[slug])}

\* no two records of the collection have the same identity key
OneRecordPerKey(users) ==
  LET keys == keysOf(users) IN
  keys = <<>> \/ \A i, j \in 1..Len(users) : keys[i] = keys[j] => i = j

\* a record lists each of its sponsors once, has one breakdown entry for
\* each of them and none for another sponsor, and each sponsor it lists
\* serves a record of that identity
SponsorsAndBreakdownAgree(user) ==
  /\ Cardinality(sponsorSet(user)) = Len(user.sponsors)
  /\ Len(user.sponsors) >= 1
  /\ \A slug \in Sponsors :
       Cardinality(entriesFor(user, slug)) = IF slug \in sponsorSet(user) THEN 1 ELSE 0
  /\ \A slug \in sponsorSet(user) :
       \E served \in servedBy(slug) : getBuilderKey(served) = getBuilderKey(user)

\* every record a fulfilled request of the round returned is in the
\* collection the round handed over, under its identity key and with that
\* sponsor among its sponsors
FetchedAreMerged(round) ==
  \A slug \in Sponsors \ round.rejected :
    LET fetched ==
          UpstreamResponse(slug, pageToFetch(round.call.allSponsorsPageMap, slug)).users
    IN \A k \in 1..Len(fetched) :
         \E i \in 1..Len(round.r.combinedUsers) :
           /\ getBuilderKey(round.r.combinedUsers[i]) = getBuilderKey(fetched[k])
           /\ slug \in sponsorSet(round.r.combinedUsers[i])

RECURSIVE breakdownSum(_, _)
breakdownSum(breakdown, k) ==
  IF k = 0 THEN 0 ELSE breakdownSum(breakdown, k - 1) + breakdown[k].amountUSD

\* C2: every builder of the aggregated collection has a total equal to the
\* sum of the USD amounts of its earnings-breakdown entries, and a
\* reward_amount equal to that total (a number).
C2_TotalIsBreakdownSum ==
  \A i \in 1..Len(allSponsorsAggregatedUsers) :
    LET user == allSponsorsAggregatedUsers[i] IN
    /\ user.totalEarningsUSD =
         breakdownSum(user.earningsBreakdown, Len(user.earningsBreakdown))
    /\ user.reward_amount = numberAmount(user.totalEarningsUSD)

\* C2 witness: a builder whose total was added to in two rounds, the
\* second a load-more round with another price than the first's
C2_Witness ==
  /\ lastRound.call.isLoadMore
  /\ \E i \in 1..Len(allSponsorsAggregatedUsers) :
       LET user == allSponsorsAggregatedUsers[i] IN
       /\ Len(user.earningsBreakdown) = 2
       /\ user.earningsBreakdown[1].sponsor = "celo"
       /\ user.earningsBreakdown[1].amountUSD = 6 * 5000
       /\ user.earningsBreakdown[2].sponsor = "base"
       /\ user.earningsBreakdown[2].amountUSD = 3 * 2000
       /\ user.totalEarningsUSD = 36000

\* an all-sponsors round completes in this step
RoundCompletes == lastRound'.n = lastRound.n + 1

\* `entries` starts with the entries of `earlier`, unmodified
startsWith(entries, earlier) ==
  /\ Len(earlier) <= Len(entries)
  /\ SubSeq(entries, 1, Len(earlier)) = earlier

\* every builder of `before` is in `after` with its breakdown entries
\* unmodified and a total that is not smaller
KeptIn(before, after) ==
  \A i \in 1..Len(before) :
    \E j \in 1..Len(after) :
      /\ getBuilderKey(after[j]) = getBuilderKey(before[i])
      /\ startsWith(after[j].earningsBreakdown, before[i].earningsBreakdown)
      /\ after[j].totalEarningsUSD >= before[i].totalEarningsUSD

\* C3: as long as the filters are the ones the page was mounted with, a
\* round that completes (initial, search-triggered or load-more) keeps every
\* builder and every breakdown entry the collection held before it, and no
\* total decreases.
C3_Cumulative ==
  [][(RoundCompletes /\ filters = InitialFilters) =>
       KeptIn(allSponsorsAggregatedUsers, allSponsorsAggregatedUsers')]_vars

\* the collection a round starts from (lines 350-358)
startedFrom(round) ==
  IF round.call.isLoadMore THEN round.call.allSponsorsAggregatedUsers ELSE <<>>

\* the breakdown entries of a builder that name `slug`
entryRecordsFor(user, slug) ==
  {user.earningsBreakdown[k] : k \in entriesFor(user, slug)}

\* what the round's collection says of a sponsor whose request was rejected
\* is what the collection the round started from said, and every record of
\* it was there before or was returned by a fulfilled request of the round
RejectedContributeNothing(round) ==
  \A j \in 1..Len(round.r.combinedUsers) :
    LET user == round.r.combinedUsers[j]
        before == {i \in 1..Len(startedFrom(round)) :
                     getBuilderKey(startedFrom(round)[i]) = getBuilderKey(user)}
    IN /\ \A slug \in round.rejected :
            IF before = {}
            THEN slug \notin sponsorSet(user) /\ entriesFor(user, slug) = {}
            ELSE \A i \in before :
                   /\ slug \in sponsorSet(user) <=> slug \in sponsorSet(startedFrom(round)[i])
                   /\ entryRecordsFor(user, slug) =
                        entryRecordsFor(startedFrom(round)[i], slug)
       /\ \/ before # {}
          \/ \E slug \in Sponsors \ round.rejected :
               \E served \in servedBy(slug) : getBuilderKey(served) = getBuilderKey(user)

\* C4: a round completes whatever subset of its requests was rejected: it
\* sets no error, its result is rendered, the collection it hands over holds
\* every builder the fulfilled requests returned, and the rejected sponsors
\* add nothing to it.
C4_PartialFailure ==
  [][RoundCompletes =>
       /\ error' = error
       /\ data'.from = "all" /\ data'.users = lastRound'.r.result.users
       /\ allSponsorsAggregatedUsers' = lastRound'.r.combinedUsers
       /\ FetchedAreMerged(lastRound')
       /\ RejectedContributeNothing(lastRound')]_vars

\* C4 witness: a load-more round whose walletconnect request was rejected
\* and whose other requests were fulfilled has been rendered without error,
\* with builders of walletconnect's first page and of base's second page
C4_Witness ==
  /\ lastRound.call.isLoadMore
  /\ lastRound.rejected = {"walletconnect"}
  /\ ~error
  /\ data.from = "all"
  /\ allSponsorsAggregatedUsers = lastRound.r.combinedUsers
  /\ \E i \in 1..Len(allSponsorsAggregatedUsers) :
       "walletconnect" \in sponsorSet(allSponsorsAggregatedUsers[i])
  /\ \E i \in 1..Len(allSponsorsAggregatedUsers) :
       allSponsorsAggregatedUsers[i].id = 8

\* C5: when a round completes, the page cursor of every sponsor whose
\* request was rejected is the one the round started from, so that a round
\* started next asks that sponsor for the same page again, and the cursor
\* of every sponsor whose request was fulfilled is the one the round started
\* from plus one.
C5_FailedSponsorRetried ==
  [][RoundCompletes =>
       \A slug \in Sponsors :
         IF slug \in lastRound'.rejected
         THEN /\ allSponsorsPageMap'[slug] = lastRound'.call.allSponsorsPageMap[slug]
              /\ pageToFetch(allSponsorsPageMap', slug) =
                   pageToFetch(lastRound'.call.allSponsorsPageMap, slug)
         ELSE allSponsorsPageMap'[slug] = lastRound'.call.allSponsorsPageMap[slug] + 1]_vars

\* C5 witness: a round that asked walletconnect for its second page was
\* rejected by walletconnect alone, and the round started after it is in
\* flight, asking walletconnect for the second page again and celo for its
\* third
C5_Witness ==
  /\ lastRound.rejected = {"walletconnect"}
  /\ pageToFetch(lastRound.call.allSponsorsPageMap, "walletconnect") = 2
  /\ \E i \in 1..Len(inflight) :
       /\ inflight[i].filters.sponsor_slug = ""
       /\ inflight[i].allSponsorsPageMap = lastRound.r.newPageMap
       /\ pageToFetch(inflight[i].allSponsorsPageMap, "walletconnect") = 2
       /\ pageToFetch(inflight[i].allSponsorsPageMap, "celo") = 3

\* C6: when a round completes, the has-more flag is true exactly if some
\* sponsor whose request was fulfilled was asked for a page before its last
\* page; it is false when every request was rejected.
C6_HasMoreIsOrOverFulfilled ==
  [][RoundCompletes =>
       /\ allSponsorsHasMore' =
            \E slug \in Sponsors \ lastRound'.rejected :
              lastRound'.call.allSponsorsPageMap[slug] + 1 < Len(UpstreamPages[slug])
       /\ lastRound'.rejected = Sponsors => ~allSponsorsHasMore']_vars

\* C6 witness: walletconnect, the only sponsor with a page left, was
\* rejected in the last round and the flag is false
C6_Witness ==
  /\ lastRound.n > 0
  /\ lastRound.rejected = {"walletconnect"}
  /\ lastRound.call.allSponsorsPageMap["walletconnect"] + 1 < Len(UpstreamPages["walletconnect"])
  /\ allSponsorsPageMap = lastRound.r.newPageMap
  /\ ~allSponsorsHasMore

\* C7: when the sponsor/duration filter changes to the all-sponsors view,
\* the first round started after the change asks every sponsor for page 1
\* and merges into an empty collection.
C7_RebuiltFromScratch ==
  [][(filterKey(filters') # filterKey(filters) /\ filters'.sponsor_slug = "") =>
       LET first == inflight'[Len(inflight) + 1] IN
       /\ \A slug \in Sponsors : pageToFetch(first.allSponsorsPageMap, slug) = 1
       /\ first.isLoadMore => first.allSponsorsAggregatedUsers = <<>>]_vars

\* consecutive entries have non-increasing totals
NonIncreasing(users) ==
  \A i \in 1..(Len(users) - 1) :
    users[i].totalEarningsUSD >= users[i + 1].totalEarningsUSD

\* the data on display is a result of the all-sponsors view
AllSponsorsResult == data.from \in {"all", "showMore"}

\* C8: the stored aggregated collection is always ordered by total
\* earnings, non-increasing, and so is the users list of every result a
\* round or a show-more step emitted.
C8_SortedByTotal ==
  /\ NonIncreasing(allSponsorsAggregatedUsers)
  /\ AllSponsorsResult => NonIncreasing(data.users)

\* C8 witness: after a load-more round the collection holds builders of
\* both rounds with different totals, and a show-more step has emitted more
\* than one display chunk with different totals
C8_Witness ==
  \/ /\ lastRound.call.isLoadMore
     /\ allSponsorsAggregatedUsers = lastRound.r.combinedUsers
     /\ Len(allSponsorsAggregatedUsers) > Len(lastRound.call.allSponsorsAggregatedUsers)
     /\ Len(lastRound.call.allSponsorsAggregatedUsers) > DISPLAY_CHUNK
     /\ allSponsorsAggregatedUsers[1].totalEarningsUSD >
          allSponsorsAggregatedUsers[Len(allSponsorsAggregatedUsers)].totalEarningsUSD
     /\ data.from = "all" /\ Len(data.users) > DISPLAY_CHUNK
  \/ /\ data.from = "showMore"
     /\ Len(data.users) > DISPLAY_CHUNK
     /\ data.users[1].totalEarningsUSD > data.users[Len(data.users)].totalEarningsUSD

\* C9: in every result of the all-sponsors view on display, the
\* leaderboard_position of each user is its 1-based index in the list.
C9_PositionIsDisplayRank ==
  AllSponsorsResult =>
    \A i \in 1..Len(data.users) : data.users[i].leaderboard_position = i

\* C9 witness: a round under an active search has emitted some of the
\* collection's users, one of them at another position than its sponsor
\* reported
C9_Witness ==
  /\ data.from = "all"
  /\ lastRound.call.filters.search # <<>>
  /\ data.users = lastRound.r.result.users
  /\ Len(data.users) >= 2
  /\ Len(data.users) < Len(allSponsorsAggregatedUsers)
  /\ \E i \in 1..Len(data.users) :
       /\ data.users[i].id \in 1..NumBuilders
       /\ RankedBuilder(data.users[i].id).leaderboard_position # i

\* the size of the collection that is paginated
CollectionSize == Len(allSponsorsAggregatedUsers)

\* C10: for a collection of N users and page size 30 the reported
\* pagination has total = N and last_page = ceil(N/30), which is 0 when
\* N = 0; the last page holds N mod 30 users, or 30 when N is a positive
\* multiple of 30.  In the lazy view the users on display are whole chunks
\* of 30 followed, at the end of the collection, by that last chunk.
C10_Pagination ==
  data.from \in {"paged", "all", "showMore"} =>
    /\ data.pagination.total = CollectionSize
    /\ IF CollectionSize = 0 THEN data.pagination.last_page = 0
       ELSE /\ (data.pagination.last_page - 1) * 30 < CollectionSize
            /\ CollectionSize <= data.pagination.last_page * 30
    /\ (data.from = "paged" /\ CollectionSize > 0
          /\ data.pagination.current_page = data.pagination.last_page)
         => Len(data.users) = IF CollectionSize % 30 = 0 THEN 30 ELSE CollectionSize % 30
    /\ (data.from = "paged" /\ data.pagination.current_page < data.pagination.last_page)
         => Len(data.users) = 30
    /\ data.from \in {"all", "showMore"}
         => \/ Len(data.users) = CollectionSize
            \/ Len(data.users) < CollectionSize /\ Len(data.users) > 0
                 /\ Len(data.users) % 30 = 0

\* C10 witness: the third and last page of a collection of 61 users holds
\* one user
C10_Witness ==
  /\ CollectionSize = 61
  /\ data.from = "paged"
  /\ data.pagination = [current_page |-> 3, last_page |-> 3, total |-> 61]
  /\ Len(data.users) = 1

\* the name a builder is displayed under, the bio or the wallet address
\* contains the query, letter case set aside
ContainsQuery(user, query) ==
  \E field \in {orElse(user.profile.display_name, user.profile.name),
                user.profile.bio, user.recipient_wallet} :
    \E k \in 0..(Len(field) - Len(query)) :
      \A j \in 1..Len(query) :
        toLowerCaseChar(field[k + j]) = toLowerCaseChar(query[j])

\* the builders of a collection that contain the query, in collection order
Matching(users, query) == SelectSeq(users, LAMBDA user : ContainsQuery(user, query))

\* the result is made of the first `count` matching builders and counts
\* the matching builders
MadeOfMatching(result, users, query, count) ==
  LET matching == Matching(users, query) IN
  /\ result.pagination.total = Len(matching)
  /\ result.pagination.last_page = (Len(matching) + 29) \div 30
  /\ Len(result.users) = Min(count, Len(matching))
  /\ result.users = SubSeq(matching, 1, Len(result.users))

\* a show-more step: the button of lines 1510-1539 revealed more builders
ShowMoreStep ==
  /\ data'.from = "showMore"
  /\ displayedCount' > displayedCount
  /\ filters' = filters
  /\ lastRound' = lastRound

\* C11: under an active search, the users and the pagination that a round
\* or a show-more step emits are made of exactly the aggregated builders
\* whose displayed name, bio or wallet contains the search string, letter
\* case set aside, the filter being applied before the slice; the stored
\* collection keeps the builders that do not match.
C11_SearchFilter ==
  [][/\ (RoundCompletes /\ lastRound'.call.filters.search # <<>>) =>
          /\ MadeOfMatching(data', allSponsorsAggregatedUsers',
                            lastRound'.call.filters.search, displayedCount')
          /\ FetchedAreMerged(lastRound')
     /\ (ShowMoreStep /\ activeSearchQuery # <<>>) =>
          /\ MadeOfMatching(data', allSponsorsAggregatedUsers',
                            activeSearchQuery, displayedCount')
          /\ keysOf(allSponsorsAggregatedUsers') = keysOf(allSponsorsAggregatedUsers)]_vars

\* C11 witness: under the search "aB" a show-more step has revealed the
\* 31st matching builder while the stored collection holds builders that
\* do not match
C11_Witness ==
  /\ data.from = "showMore"
  /\ activeSearchQuery = <<"a", "B">>
  /\ Len(data.users) > DISPLAY_CHUNK
  /\ Len(data.users) < Len(allSponsorsAggregatedUsers)
  /\ \A i \in 1..Len(data.users) : ContainsQuery(data.users[i], activeSearchQuery)
  /\ \E i \in 1..Len(allSponsorsAggregatedUsers) :
       ~ContainsQuery(allSponsorsAggregatedUsers[i], activeSearchQuery)

\* aggregated builders that pass the active search are not yet displayed
UndisplayedRemain ==
  displayedCount < Len(Matching(allSponsorsAggregatedUsers, activeSearchQuery))

\* a load-more trigger (button or scroll observer) started a network round
LoadMoreStarted ==
  /\ rounds' = rounds + 1
  /\ inflight'[Len(inflight')].isLoadMore

\* C12: while aggregated builders remain undisplayed, a load-more trigger
\* reveals up to 30 more of them and starts no round; a load-more round is
\* started only when none remain.
C12_RevealBeforeFetch ==
  [][/\ (UndisplayedRemain /\ ShowMoreStep) =>
          /\ rounds' = rounds /\ inflight' = inflight
          /\ displayedCount' =
               Min(displayedCount + 30,
                   Len(Matching(allSponsorsAggregatedUsers, activeSearchQuery)))
     /\ LoadMoreStarted => ~UndisplayedRemain]_vars

\* the sponsor has served its last page to the holder of these cursors
Exhausted(pageMap, slug) == pageMap[slug] >= Len(UpstreamPages[slug])

\* C13: a round issues no request for a sponsor that is exhausted while
\* another sponsor still has pages.
C13_ExhaustedSkipped ==
  \A i \in 1..Len(inflight) :
    inflight[i].filters.sponsor_slug = "" =>
      \A slug \in Sponsors :
        (/\ Exhausted(inflight[i].allSponsorsPageMap, slug)
         /\ \E other \in Sponsors : ~Exhausted(inflight[i].allSponsorsPageMap, other))
          => \A request \in requestsOf(inflight[i].allSponsorsPageMap) :
               request.sponsor_slug # slug

\* a call of getTokenPrice has settled
PriceSettled == args.fn = "getTokenPrice" /\ returned # NotReturned

\* the price service answered the call with a price
LivePriceQuoted == args.outcome.fetched /\ args.outcome.ok /\ args.outcome.usd > 0

\* C14: for a known sponsor getTokenPrice never rejects; it resolves to the
\* live price when the price call succeeds with a price and to the
\* sponsor's static fallback price on a network error, a response that is
\* not 2xx and a missing or zero price, always with the sponsor's tokenInfo.
C14_FallbackOnFailure ==
  (PriceSettled /\ args.sponsorSlug \in Sponsors) =>
    /\ returned.status = "resolved"
    /\ returned.tokenInfo = SPONSOR_TOKENS(args.sponsorSlug)
    /\ returned.tokenInfo # NULL_TOKEN_INFO
    /\ returned.requests > 0 =>
         returned.price = IF LivePriceQuoted THEN args.outcome.usd
                          ELSE SPONSOR_TOKENS(args.sponsorSlug).fallbackPrice
    /\ returned.requests = 0 =>
         returned.price = SPONSOR_TOKENS(args.sponsorSlug).fallbackPrice

\* C14 witness: the price call for celo was answered 5xx and the call
\* resolved to celo's fallback price
C14_Witness ==
  /\ PriceSettled
  /\ args.sponsorSlug = "celo"
  /\ args.outcome.fetched /\ ~args.outcome.ok
  /\ returned.status = "resolved"
  /\ returned.requests = 1
  /\ returned.price = 5000

\* C15: for an undefined, empty or unknown sponsor id getTokenPrice
\* resolves to price 0 and no tokenInfo, and issues no request.
C15_UnknownSponsor ==
  (PriceSettled /\ args.sponsorSlug \notin Sponsors) =>
    /\ returned.status = "resolved"
    /\ returned.price = 0
    /\ returned.tokenInfo = NULL_TOKEN_INFO
    /\ returned.requests = 0

\* C15 witness: a call for a slug that is not in the table has resolved
\* while the price service would have quoted a price
C15_Witness ==
  /\ PriceSettled
  /\ args.sponsorSlug = "optimism"
  /\ LivePriceQuoted
  /\ returned.status = "resolved"
  /\ returned.price = 0
  /\ returned.requests = 0


\* C16: after categorizeBuilders has returned for a list that is not empty,
\* every one of the five categories is the category of exactly one builder
\* in the returned map, and that builder is the one the category's selector
\* returns.
AssignedTo(map, category) ==
  {k \in 1..Len(map) : map[k].value = category}

C16_EveryCategoryAssigned ==
  (/\ args.fn = "categorizeBuilders"
   /\ returned.status = "returned"
   /\ Len(args.users) > 0)
  => \A c \in 1..Len(BuilderCategories) :
       /\ Cardinality(AssignedTo(returned.map, BuilderCategories[c])) = 1
       /\ \A k \in AssignedTo(returned.map, BuilderCategories[c]) :
            returned.map[k].key
              = args.users[selectorOf(BuilderCategories[c], args.users,
                                      args.tokenPrice)].id

\* the five selectors of lines 112-228
FiveSelectors ==
  {"getMostEarnings", "getTrendingBuilder", "getHighestScore",
   "getFeaturedBuilder", "getSoughtAfterBuilder"}

\* the candidates a selector considers, as indices of its list: the builders
\* with a positive ranking change for the trending selector when there is
\* one, and the whole list otherwise
Considered(call) ==
  IF /\ call.fn = "getTrendingBuilder"
     /\ \E i \in 1..Len(call.users) : call.users[i].ranking_change > 0
  THEN {i \in 1..Len(call.users) : call.users[i].ranking_change > 0}
  ELSE 1..Len(call.users)

\* the category score of every builder of the list
CategoryScores(call) ==
  CASE call.fn = "getMostEarnings" -> earningsScores(call.users)
    [] call.fn = "getTrendingBuilder" -> trendingScores(call.users)
    [] call.fn = "getHighestScore" -> pointsScores(call.users)
    [] call.fn = "getFeaturedBuilder" -> featuredScores(call.users, call.tokenPrice)
    [] call.fn = "getSoughtAfterBuilder" -> soughtAfterScores(call.users)

EarliestMaximum(index, scores, candidates) ==
  /\ index \in candidates
  /\ \A j \in candidates :
       /\ scores[j] <= scores[index]
       /\ scores[j] = scores[index] => j >= index

TiedAtMaximum(fn) ==
  /\ args.fn = fn
  /\ returned.status = "returned"
  /\ returned.index # 0
  /\ \E j \in Considered(args) :
       /\ j > returned.index
       /\ CategoryScores(args)[j] = CategoryScores(args)[returned.index]

PositiveScoring(call) ==
  IF call.fn = "getTrendingBuilder"
  THEN trendingScores(call.users)
  ELSE positiveTrendingScores(call.users)

SomePositive(users) == \E i \in 1..Len(users) : users[i].ranking_change > 0

\* C18: getTrendingBuilder, in either of its definitions, returns a builder
\* with a positive ranking change when the list has one; when it has none
\* and is not empty, the builder returned is the first of the whole list
\* with the maximal score under the same scoring.
C18_SameScoringFallback ==
  (/\ args.fn \in {"getTrendingBuilder", "getTrendingBuilder2"}
   /\ returned.status = "returned"
   /\ Len(args.users) > 0)
  => IF SomePositive(args.users)
     THEN /\ returned.index # 0
          /\ args.users[returned.index].ranking_change > 0
     ELSE EarliestMaximum(returned.index, PositiveScoring(args),
                          1..Len(args.users))

ProxyRoutes == {"builderscore.GET", "talent.GET"}

\* the upstream answered with a 2xx status and a body that is JSON
UpstreamSuccess(call) ==
  /\ call.hasBaseUrl
  /\ call.hasEndpoint
  /\ ~call.upstream.rejects
  /\ ok(call.upstream)
  /\ call.upstream.parses

ErrorResponse(result) ==
  /\ result.response.body.kind = "error"
  /\ result.response.body.error # <<>>
  /\ ~ok(result.response)

\* C19: a GET to a proxy route is answered with one JSON response; without
\* the base URL variable the answer is a 500 error and no upstream call is
\* made; without the endpoint parameter it is a 400 error; when the
\* upstream does not answer 2xx with JSON it is an error with a status that
\* is not 2xx; a 200 is given only for an upstream 2xx JSON answer, with
\* the upstream body.
C19_ProxyNeverReportsFailureAsSuccess ==
  (args.fn \in ProxyRoutes /\ returned # NotReturned)
  => /\ returned.status = "responded"
     /\ ~args.hasBaseUrl
        => /\ returned.response.status = 500
           /\ ErrorResponse(returned)
           /\ returned.fetches = 0
     /\ (args.hasBaseUrl /\ ~args.hasEndpoint)
        => /\ returned.response.status = 400
           /\ ErrorResponse(returned)
     /\ ~UpstreamSuccess(args) => ErrorResponse(returned)
     /\ ok(returned.response)
        => /\ UpstreamSuccess(args)
           /\ returned.response.status = 200
           /\ returned.response.body = dataBody(args.upstream.value)

\* an upstream failure has been answered with an error that keeps the
\* upstream status
C19_Witness ==
  /\ args.fn \in ProxyRoutes
  /\ returned # NotReturned
  /\ args.hasBaseUrl
  /\ args.hasEndpoint
  /\ ~args.upstream.rejects
  /\ args.upstream.status = 404
  /\ returned.response.status = 404
  /\ returned.response.body.kind = "error"

\* the all-sponsors rounds that are outstanding
OutstandingRounds ==
  {i \in 1..Len(inflight) : inflight[i].filters.sponsor_slug = ""}

\* C20: at most one all-sponsors round is outstanding at any time.
C20_NoOverlappingRounds == Cardinality(OutstandingRounds) <= 1

\* the call at `i` settles in this step, and it was started under filters
\* that are no longer the selected ones
SupersededSettles(i) ==
  /\ i \in 1..Len(inflight)
  /\ inflight' = removeAt(inflight, i)
  /\ filterKey(inflight[i].filters) # filterKey(filters)

\* C21: when a call that was started before the last filter change settles,
\* the displayed data, the page cursors, the has-more flag and the
\* aggregated collection stay as they are.
C21_SupersededDiscarded ==
  [][\A i \in 1..Len(inflight) :
       SupersededSettles(i)
       => UNCHANGED <<data, allSponsorsPageMap, allSponsorsHasMore,
                      allSponsorsAggregatedUsers>>]_vars

\* the identity of a record: the talent-protocol id when there is one, else
\* the display name (or the name) in lower case and trimmed when that is
\* not empty, else the per-sponsor id
IdentityKey(record) ==
  IF record.profile.talent_protocol_id \notin {NullId, 0}
  THEN <<"talent", record.profile.talent_protocol_id>>
  ELSE IF trim(toLowerCase(orElse(record.profile.display_name, record.profile.name))) # <<>>
  THEN <<"name", trim(toLowerCase(orElse(record.profile.display_name, record.profile.name)))>>
  ELSE <<"id", record.id>>

\* the records a round merges: the collection it starts from and the
\* records its fulfilled requests returned
MergedBy(round) ==
  {startedFrom(round)[i] : i \in 1..Len(startedFrom(round))}
  \cup UNION {
    LET fetched ==
          UpstreamResponse(slug, pageToFetch(round.call.allSponsorsPageMap, slug)).users
    IN {fetched[k] : k \in 1..Len(fetched)} : slug \in Sponsors \ round.rejected}

\* every builder the round started from is, under the same identity, the
\* builder of the collection handed over that continues its breakdown
RekeyedInPlace(round) ==
  \A i \in 1..Len(startedFrom(round)) :
    \E j \in 1..Len(round.r.combinedUsers) :
      /\ IdentityKey(round.r.combinedUsers[j]) = IdentityKey(startedFrom(round)[i])
      /\ round.r.combinedUsers[j].id = startedFrom(round)[i].id
      /\ startsWith(round.r.combinedUsers[j].earningsBreakdown,
                    startedFrom(round)[i].earningsBreakdown)

\* C22: the collection a round hands over has exactly one record for every
\* identity among the records it merged (two records are merged if and
\* only if their identities are equal), and a builder the round started
\* from is found again under the identity it was stored with.
C22_IdentityKey ==
  lastRound.n > 0
  => /\ {IdentityKey(lastRound.r.combinedUsers[i]) :
           i \in 1..Len(lastRound.r.combinedUsers)}
          = {IdentityKey(record) : record \in MergedBy(lastRound)}
     /\ Len(lastRound.r.combinedUsers)
          = Cardinality({IdentityKey(record) : record \in MergedBy(lastRound)})
     /\ RekeyedInPlace(lastRound)

\* a load-more round has found a builder again that is keyed by its name
\* and merged a record of another sponsor into it, and the collection
\* holds builders keyed in each of the three ways
C22_Witness ==
  /\ lastRound.n > 0
  /\ lastRound.call.isLoadMore
  /\ \E i \in 1..Len(lastRound.r.combinedUsers) :
       /\ IdentityKey(lastRound.r.combinedUsers[i]) = <<"name", <<"a", "b">>>>
       /\ sponsorSet(lastRound.r.combinedUsers[i]) = {"celo", "walletconnect"}
  /\ \E i \in 1..Len(lastRound.r.combinedUsers) :
       IdentityKey(lastRound.r.combinedUsers[i])[1] = "id"
  /\ \E i \in 1..Len(lastRound.r.combinedUsers) :
       IdentityKey(lastRound.r.combinedUsers[i])[1] = "talent"

\* the collection of a round before the display ranks of lines 453-455 are
\* written (scores and positions do not depend on the prices)
PreDisplay(round) ==
  aggregate(round.call, settleAll(round.call.allSponsorsPageMap, round.rejected),
            roundPrices([fetched |-> FALSE, ok |-> FALSE, usd |-> 0]))

\* the records merged into a builder over all rounds: one for each of its
\* sponsors, the record of its identity that the sponsor serves
RecordsOf(user) ==
  UNION {{served \in servedBy(slug) : IdentityKey(served) = IdentityKey(user)} :
           slug \in sponsorSet(user)}

HighestScore(user) ==
  \A record \in RecordsOf(user) :
    /\ user.profile.builder_score.points >= record.profile.builder_score.points
    /\ \E other \in RecordsOf(user) :
         user.profile.builder_score.points = other.profile.builder_score.points

LowestPosition(user) ==
  \A record \in RecordsOf(user) :
    /\ user.leaderboard_position <= record.leaderboard_position
    /\ \E other \in RecordsOf(user) :
         user.leaderboard_position = other.leaderboard_position

HigherScoreLowerPosition(users) ==
  \A i \in 1..Len(users) : HighestScore(users[i]) /\ LowestPosition(users[i])

\* C23: before the display ranks are written, every builder of the
\* collection of a round has the highest score and the lowest
\* sponsor-reported position of the records merged into it over all rounds.
C23_HigherScoreLowerPosition ==
  lastRound.n > 0 => HigherScoreLowerPosition(PreDisplay(lastRound))

\* the pages of a sponsor, up to `cursor`, that hold a record of the
\* builder's identity
PagesHolding(user, slug, cursor) ==
  {p \in 1..Min(cursor, Len(UpstreamPages[slug])) :
     \E k \in 1..Len(UpstreamPages[slug][p]) :
       IdentityKey(UpstreamPages[slug][p][k]) = IdentityKey(user)}

\* C24: the stored collection counts a page of a sponsor at most once, and
\* only pages up to the stored cursor of the sponsor: a builder has no more
\* breakdown entries of a sponsor than the sponsor has pages, up to its
\* cursor, that hold the builder, and its total is the sum of those
\* entries.
C24_PageMergedAtMostOnce ==
  \A i \in 1..Len(allSponsorsAggregatedUsers) :
    /\ \A slug \in Sponsors :
         Cardinality(entriesFor(allSponsorsAggregatedUsers[i], slug))
           <= Cardinality(PagesHolding(allSponsorsAggregatedUsers[i], slug,
                                       allSponsorsPageMap[slug]))
    /\ allSponsorsAggregatedUsers[i].totalEarningsUSD
         = breakdownSum(allSponsorsAggregatedUsers[i].earningsBreakdown,
                        Len(allSponsorsAggregatedUsers[i].earningsBreakdown))

\* walletconnect has failed in every round so far; the collection now
\* stored came out of a load-more round and holds a builder with an entry
\* from a first page of one sponsor and a second page of another
C24_Witness ==
  /\ lastRound.n >= 2
  /\ lastRound.call.isLoadMore
  /\ allSponsorsPageMap["base"] = 2
  /\ allSponsorsPageMap["walletconnect"] = 0
  /\ \E i \in 1..Len(allSponsorsAggregatedUsers) :
       /\ entriesFor(allSponsorsAggregatedUsers[i], "celo") # {}
       /\ entriesFor(allSponsorsAggregatedUsers[i], "base") # {}
       /\ PagesHolding(allSponsorsAggregatedUsers[i], "base", 2) = {2}

\* the largest last_page a sponsor reports
MaxLastPage ==
  CHOOSE n \in {Len(UpstreamPages[slug]) : slug \in Sponsors} :
    \A slug \in Sponsors : Len(UpstreamPages[slug]) <= n

\* every record of every page of every sponsor is in the collection, with
\* a breakdown entry of that sponsor and that amount
AllPagesMerged(users) ==
  \A slug \in Sponsors :
    \A p \in 1..Len(UpstreamPages[slug]) :
      \A k \in 1..Len(UpstreamPages[slug][p]) :
        \E i \in 1..Len(users) :
          /\ IdentityKey(users[i]) = IdentityKey(UpstreamPages[slug][p][k])
          /\ \E e \in entriesFor(users[i], slug) :
               users[i].earningsBreakdown[e].amount
                 = rewardAmountOf(UpstreamPages[slug][p][k])

FailedSponsorHasPagesLeft ==
  /\ lastRound.n > 0
  /\ inflight = <<>>
  /\ filters.sponsor_slug = ""
  /\ MainView(data, loading, error)
  /\ allSponsorsPageMap = lastRound.r.newPageMap
  /\ \E slug \in lastRound.rejected :
       allSponsorsPageMap[slug] < Len(UpstreamPages[slug])

\* C26: after a round in which the request of a sponsor with unfetched
\* pages was rejected, the load-more control is rendered.
C26_LoadMoreStaysAvailable ==
  FailedSponsorHasPagesLeft
  => TriggerRendered(filters, data, loading, error, allSponsorsHasMore,
                     displayedCount, allSponsorsAggregatedUsers)

\* the sponsor whose token price the component asks for
PricedSponsor == IF filters.sponsor_slug = "" THEN "walletconnect" ELSE filters.sponsor_slug

\* what a price resolution for a sponsor may store
ResolutionsFor(slug) ==
  { IF getTokenPrice(slug, outcome).rejected
    THEN [price |-> NullId, tokenInfo |-> NULL_TOKEN_INFO]
    ELSE [price |-> getTokenPrice(slug, outcome).price,
          tokenInfo |-> getTokenPrice(slug, outcome).tokenInfo] :
    outcome \in RoundPriceOutcomes }

\* C27: once every outstanding price resolution has settled, in whatever
\* order, the stored token price and token are those of a resolution for
\* the sponsor now selected (walletconnect when none is), never those of a
\* sponsor selected before
C27_PriceOfSelectedSponsor ==
  priceCalls = <<>> =>
    [price |-> tokenPriceState, tokenInfo |-> tokenInfoState] \in ResolutionsFor(PricedSponsor)

\* C28: in every non-empty result of the all-sponsors view the builder
\* getMostEarnings selects among the displayed users is the one displayed
\* first, at rank 1.
C28_MostEarningsIsRankOne ==
  (AllSponsorsResult /\ Len(data.users) > 0)
  => /\ getMostEarnings(data.users) = 1
     /\ data.users[getMostEarnings(data.users)].leaderboard_position = 1

\* a result is displayed whose first two builders have the same total
C28_Witness ==
  /\ AllSponsorsResult
  /\ Len(data.users) > 1
  /\ data.users[1].totalEarningsUSD = data.users[2].totalEarningsUSD
  /\ data.users[1].totalEarningsUSD > 0
  /\ getMostEarnings(data.users) = 1

\* the featured score with calculateMCAP computed anew for every builder
ReferenceFeaturedScores(users, tokenPrice) ==
  [i \in 1..Len(users) |->
     calculateMCAP(users[i], tokenPrice)
     + (IF users[i].profile.human_checkmark THEN WEIGHTS.HUMAN_CHECKMARK ELSE 0)
     + (IF users[i].profile.verified_nationality THEN WEIGHTS.VERIFIED_NATIONALITY ELSE 0)
     + (IF users[i].profile.bio # <<>> THEN 25 ELSE 0)]

\* the selector that reduces over those scores
ReferenceFeaturedBuilder(users, tokenPrice) ==
  IF Len(users) = 0 THEN 0
  ELSE reduceMax(ReferenceFeaturedScores(users, tokenPrice), allOf(users))

\* C29: for every list and price getFeaturedBuilder returns the builder
\* that the selector recomputing calculateMCAP for every comparison
\* returns, also when two builders of the list share an id.
C29_FeaturedMatchesReference ==
  (args.fn = "getFeaturedBuilder" /\ returned # NotReturned)
  => returned = selected(ReferenceFeaturedBuilder(args.users, args.tokenPrice))

\* the answers for pages 1..n, one after the other
RECURSIVE PagesInOrder(_, _)
PagesInOrder(responses, n) ==
  IF n = 0 THEN <<>> ELSE PagesInOrder(responses, n - 1) \o responses[n].results

\* the filters are those of the mount, no search is in flight, no error is shown
SearchSettled ==
  /\ ~searchHistory.changed
  /\ searchInflight = <<>>
  /\ ~searchResults.error

\* C30: with the filters unchanged, whenever no search is in flight and no
\* error is shown, results is the answers for pages 1..page in order, each
\* once (so the page-1 answer has replaced the list); and loadMore has
\* started a search only for page + 1, when not loading and hasMore was true.
C30_ResultsArePagesInOrder ==
  /\ SearchSettled
     => /\ \A p \in 1..searchResults.page : searchHistory.responses[p].received
        /\ searchResults.results = PagesInOrder(searchHistory.responses, searchResults.page)
  /\ \A i \in 1..Len(searchInflight) :
       searchInflight[i].by = "loadMore"
       => /\ ~searchInflight[i].seen.loading
          /\ searchInflight[i].seen.hasMore
          /\ searchInflight[i].pageNum = searchInflight[i].seen.page + 1

\* two pages have been loaded, both with results, and the second by loadMore
C30_Witness ==
  /\ SearchSettled
  /\ searchResults.page = 2
  /\ searchHistory.responses[1].results = <<"0xa">>
  /\ searchHistory.responses[2].results = <<"0xb", "0xc">>
  /\ searchResults.results = <<"0xa", "0xb", "0xc">>

========================================================================
